---- MODULE Spec2Model ----
(***************************************************************************)
(* A model of the NovelKit build script (build_novelkit.py): the command   *)
(* document pipeline (front matter parser, script selection, placeholder   *)
(* substitution, name normalisation, output rendering) and the build       *)
(* orchestrator that stages one destination tree per (ai, platform) cell.  *)
(*                                                                         *)
(* Text is modelled character by character: a Python str is a sequence of  *)
(* one-character strings, and every str method the script uses is an       *)
(* operator that computes what the method computes.                        *)
(***************************************************************************)
EXTENDS Integers, Sequences, FiniteSets, TLC

VARIABLES
    stem,      \* NameNormalizer: the src_name handed to to_novel_command_name
    named,     \* NameNormalizer: [done, val] result of the first application
    renamed,   \* NameNormalizer: [done, val] result of applying it to named.val
    doc,       \* FrontMatterParser: the document, [raw, framed, lines, tail]
    parsed,    \* FrontMatterParser: [done, val] with val = [frontmatter, body]
    job,       \* convert_command_file: [content, base_name, ai, platform]
    converted, \* convert_command_file: [done, val], val as convert_command_file gives
    source,    \* build_for_ai: what the build reads under repo_root
    dist,      \* build_for_ai: the entries under repo_root/dist
    call,      \* build_for_ai: the call that has just returned or raised
    builds,    \* build_for_ai: number of calls made
    edits,     \* number of changes made to the sources and to dist from outside
    supported, \* [ais, platforms]: SUPPORTED_AIS and SUPPORTED_PLATFORMS
    run,       \* main: the run that has just ended
    cache,     \* download_from_remote: ~/.cache/novel-kit/dist, [files, dirs]
    fetched    \* download_from_remote: the call that has just returned

buildVars == <<source, dist, call, builds, edits, supported, run>>

vars == <<stem, named, renamed, doc, parsed, job, converted, buildVars, cache, fetched>>

(***************************************************************************)
(* Bounds of the model.                                                    *)
(***************************************************************************)
\* Longest source name, counted in the pieces it is assembled from.
MaxStemPieces == 3
\* Longest unframed document, counted in the pieces it is assembled from.
MaxRawPieces == 3
\* Most lines between the two delimiters of a framed document.
MaxLines == 3
\* Longest body of a command document, counted in the pieces it is assembled from.
MaxBodyPieces == 2

(***************************************************************************)
(* Python str methods, on sequences of characters.                         *)
(***************************************************************************)
\* The characters str.strip() removes.
Whitespace == {" ", "\t", "\n", "\r"}

\* str.lower(), one character.
LowerChar(c) ==
    CASE c = "N" -> "n"
      [] c = "O" -> "o"
      [] c = "V" -> "v"
      [] c = "E" -> "e"
      [] c = "L" -> "l"
      [] c = "M" -> "m"
      [] c = "D" -> "d"
      [] OTHER -> c

\* str.lower()
Lower(s) == IF s = <<>> THEN <<>> ELSE [i \in 1..Len(s) |-> LowerChar(s[i])]

\* str.startswith(p)
StartsWith(s, p) == Len(p) <= Len(s) /\ SubSeq(s, 1, Len(p)) = p

\* str.endswith(p)
EndsWith(s, p) == Len(p) <= Len(s) /\ SubSeq(s, Len(s) - Len(p) + 1, Len(s)) = p

\* s[n:]
DropFirst(s, n) == SubSeq(s, n + 1, Len(s))

\* s[:-n]
DropLast(s, n) == SubSeq(s, 1, Len(s) - n)

\* str.find(sub): the least start index (1-based) of sub in s, 0 when absent.
Find(s, sub) ==
    LET hits == {i \in 1..(Len(s) - Len(sub) + 1) : SubSeq(s, i, i + Len(sub) - 1) = sub}
    IN IF hits = {} THEN 0 ELSE CHOOSE i \in hits : \A j \in hits : i <= j

\* sub in s
Contains(s, sub) == Find(s, sub) # 0

\* str.split(sep, maxsplit): at most maxsplit cuts, left to right; maxsplit < 0
\* means no limit.
RECURSIVE SplitMax(_, _, _)
SplitMax(s, sep, maxsplit) ==
    LET at == Find(s, sep)
    IN IF maxsplit = 0 \/ at = 0
       THEN <<s>>
       ELSE <<SubSeq(s, 1, at - 1)>> \o
            SplitMax(DropFirst(s, at + Len(sep) - 1), sep,
                     IF maxsplit < 0 THEN maxsplit ELSE maxsplit - 1)

\* str.split(sep)
Split(s, sep) == SplitMax(s, sep, -1)

\* sep.join(parts)
RECURSIVE Join(_, _)
Join(parts, sep) ==
    IF parts = <<>> THEN <<>>
    ELSE IF Len(parts) = 1 THEN parts[1]
    ELSE parts[1] \o sep \o Join(Tail(parts), sep)

\* str.lstrip(chars)
RECURSIVE LStripChars(_, _)
LStripChars(s, chars) ==
    IF s # <<>> /\ Head(s) \in chars THEN LStripChars(Tail(s), chars) ELSE s

\* str.rstrip(chars)
RECURSIVE RStripChars(_, _)
RStripChars(s, chars) ==
    IF s # <<>> /\ s[Len(s)] \in chars THEN RStripChars(DropLast(s, 1), chars) ELSE s

\* str.strip(chars)
StripChars(s, chars) == RStripChars(LStripChars(s, chars), chars)

\* str.strip()
Strip(s) == StripChars(s, Whitespace)

\* str.replace(old, new): every non-overlapping occurrence, left to right.
RECURSIVE Replace(_, _, _)
Replace(s, old, new) ==
    LET at == Find(s, old)
    IN IF at = 0 THEN s
       ELSE SubSeq(s, 1, at - 1) \o new \o
            Replace(DropFirst(s, at + Len(old) - 1), old, new)

\* A result that is not there yet, and one that is.
NotDone == [done |-> FALSE, val |-> <<>>]
Done(v) == [done |-> TRUE, val |-> v]

\* The literal strings of the script.
Lit ==
    [ DotMd |-> <<".", "m", "d">>,
      NovelDash |-> <<"n", "o", "v", "e", "l", "-">>,
      NovelDot |-> <<"n", "o", "v", "e", "l", ".">>,
      Delim |-> <<"-", "-", "-">>,
      Colon |-> <<":">>,
      Newline |-> <<"\n">>,
      ScriptsColon |-> <<"s", "c", "r", "i", "p", "t", "s", ":">>,
      ScriptsKey |-> <<"s", "c", "r", "i", "p", "t", "s">>,
      FormatMd |-> <<"m", "d">>,
      FormatToml |-> <<"t", "o", "m", "l">>,
      FormatAgentMd |-> <<"a", "g", "e", "n", "t", ".", "m", "d">>,
      ArgDollar |-> <<"$", "A", "R", "G", "U", "M", "E", "N", "T", "S">>,
      ArgBraces |-> <<"{", "{", "a", "r", "g", "s", "}", "}">>,
      KeySh |-> <<"s", "h">>,
      KeyPs |-> <<"p", "s">>,
      DescriptionKey |-> <<"d", "e", "s", "c", "r", "i", "p", "t", "i", "o", "n">>,
      PlaceholderScript |-> <<"{", "S", "C", "R", "I", "P", "T", "}">>,
      PlaceholderArguments |-> <<"$", "A", "R", "G", "U", "M", "E", "N", "T", "S">>,
      PlaceholderArgs |-> <<"{", "A", "R", "G", "S", "}">>,
      TripleQuote |-> <<"\"", "\"", "\"">>,
      TomlDescriptionOpen |-> <<"d", "e", "s", "c", "r", "i", "p", "t", "i", "o", "n", " ", "=", " ", "\"">>,
      TomlPromptOpen |-> <<"p", "r", "o", "m", "p", "t", " ", "=", " ", "\"", "\"", "\"", "\n">>,
      TomlPromptClose |-> <<"\n", "\"", "\"", "\"">>,
      MissingOpen |-> <<"(", "M", "i", "s", "s", "i", "n", "g", " ">>,
      MissingClose |-> <<" ", "s", "c", "r", "i", "p", "t", ")">> ]

(***************************************************************************)
(* NameNormalizer: to_novel_command_name.                                  *)
(***************************************************************************)

\* [p for p in parts if p]
NonEmptyParts(parts) == SelectSeq(parts, LAMBDA p : p # <<>>)

\* A slip in the prefix test: the case of the prefix is not folded.
NameStemCaseSensitive(src_name) ==
    LET base1 == IF EndsWith(Lower(src_name), Lit.DotMd) THEN DropLast(src_name, 3)
                 ELSE src_name
    IN IF StartsWith(base1, Lit.NovelDash) THEN DropFirst(base1, Len(Lit.NovelDash))
       ELSE base1

\* base after the ".md" suffix and the "novel-" prefix are dropped.
NameStem(src_name) ==
    LET base1 == IF EndsWith(Lower(src_name), Lit.DotMd) THEN DropLast(src_name, 3)
                 ELSE src_name
    IN IF StartsWith(Lower(base1), Lit.NovelDash) THEN DropFirst(base1, Len(Lit.NovelDash))
       ELSE base1

\* A slip in the fallback: the prefix alone is returned instead of src_name.
to_novel_command_name_no_fallback(src_name, extension) ==
    LET parts == NonEmptyParts(Split(NameStem(src_name), <<"-">>))
    IN Lit.NovelDot \o Join(parts, <<".">>) \o extension

to_novel_command_name(src_name, extension) ==
    LET parts == NonEmptyParts(Split(NameStem(src_name), <<"-">>))
    IN IF parts = <<>> THEN src_name
       ELSE Lit.NovelDot \o Join(parts, <<".">>) \o extension

(***************************************************************************)
(* Inputs of the NameNormalizer specification.                             *)
(***************************************************************************)
WriterNew == <<"w", "r", "i", "t", "e", "r", "-", "n", "e", "w">>
NovelSetup == <<"n", "o", "v", "e", "l", "-", "s", "e", "t", "u", "p">>
ConstitutionCreate ==
    <<"c", "o", "n", "s", "t", "i", "t", "u", "t", "i", "o", "n", "-",
      "c", "r", "e", "a", "t", "e">>

StemPieces ==
    { <<"n", "o", "v", "e", "l", "-">>, <<"N", "o", "v", "E", "L", "-">>,
      <<"n", "o", "v", "e", "l">>, <<".", "m", "d">>, <<".", "M", "d">>,
      <<"-">>, <<".">>, <<"a">>, <<"b", "c">> }

RECURSIVE PieceStrings(_, _)
PieceStrings(pieces, n) ==
    IF n = 0 THEN {<<>>}
    ELSE LET shorter == PieceStrings(pieces, n - 1)
         IN shorter \cup {s \o p : s \in shorter, p \in pieces}

Stems == PieceStrings(StemPieces, MaxStemPieces)
         \cup {WriterNew, NovelSetup, ConstitutionCreate}

\* The variables of the other components, at rest.
NoDoc == [raw |-> <<>>, framed |-> FALSE, lines |-> <<>>, tail |-> <<>>]
ParserIdle == doc = NoDoc /\ parsed = NotDone
NamerIdle == stem = <<>> /\ named = NotDone /\ renamed = NotDone
NoJob == [content |-> <<>>, base_name |-> <<>>, ai |-> <<>>, platform |-> <<>>]
ConverterIdle == job = NoJob /\ converted = NotDone
BuilderIdle ==
    /\ source = <<>> /\ dist = {} /\ call = <<>> /\ builds = 0 /\ edits = 0
    /\ supported = <<>> /\ run = <<>>

\* No call of download_from_remote has been made, and the cache directory holds
\* nothing.
DownloaderIdle ==
    /\ cache = [files |-> [name \in {} |-> <<>>], dirs |-> [name \in {} |-> {}]]
    /\ fetched = [calls |-> 0, filename |-> <<>>, ret |-> <<>>, hit |-> FALSE]

InitName ==
    /\ stem \in Stems
    /\ named = NotDone
    /\ renamed = NotDone
    /\ ParserIdle
    /\ ConverterIdle
    /\ BuilderIdle
    /\ DownloaderIdle

\* normalize(stem), as convert_command_file calls it (extension="").
Normalize ==
    /\ ~named.done
    /\ named' = Done(to_novel_command_name(stem, <<>>))
    /\ UNCHANGED <<stem, renamed, doc, parsed, job, converted, buildVars, cache, fetched>>

\* normalize applied to its own output.
NormalizeAgain ==
    /\ named.done /\ ~renamed.done
    /\ renamed' = Done(to_novel_command_name(named.val, <<>>))
    /\ UNCHANGED <<stem, named, doc, parsed, job, converted, buildVars, cache, fetched>>

NextName == Normalize \/ NormalizeAgain

SpecName == InitName /\ [][NextName]_vars

(***************************************************************************)
(* NameNormalizer: the claims.                                             *)
(***************************************************************************)
\* The rule of the specification, read off the positions of the input: hi is
\* the last position kept (a trailing ".md" in any case is dropped), lo the
\* first (a leading "novel-" in any case is dropped).
RuleHi(s) ==
    IF Len(s) >= 3 /\ Lower(SubSeq(s, Len(s) - 2, Len(s))) = Lit.DotMd
    THEN Len(s) - 3 ELSE Len(s)

RuleLo(s) ==
    IF RuleHi(s) >= 6 /\ Lower(SubSeq(s, 1, 6)) = Lit.NovelDash THEN 7 ELSE 1

\* No fragment remains: every kept character is a hyphen.
NoFragment(s) == \A i \in RuleLo(s)..RuleHi(s) : s[i] = "-"

\* The kept characters from position i on: a hyphen is dropped, and a
\* character that opens a fragment is preceded by one dot.
RECURSIVE RuleDotted(_, _)
RuleDotted(s, i) ==
    IF i > RuleHi(s) THEN <<>>
    ELSE IF s[i] = "-" THEN RuleDotted(s, i + 1)
    ELSE (IF i = RuleLo(s) \/ s[i - 1] = "-" THEN <<".", s[i]>> ELSE <<s[i]>>)
         \o RuleDotted(s, i + 1)

RuleName(s) ==
    IF NoFragment(s) THEN s
    ELSE <<"n", "o", "v", "e", "l">> \o RuleDotted(s, RuleLo(s))

NovelWriterNew ==
    <<"n", "o", "v", "e", "l", ".", "w", "r", "i", "t", "e", "r", ".", "n", "e", "w">>
NovelSetupName == <<"n", "o", "v", "e", "l", ".", "s", "e", "t", "u", "p">>
NovelConstitutionCreate ==
    <<"n", "o", "v", "e", "l", ".", "c", "o", "n", "s", "t", "i", "t", "u", "t", "i",
      "o", "n", ".", "c", "r", "e", "a", "t", "e">>

\* C4: to_novel_command_name with an empty extension returns, for every input,
\* what the rule gives: "novel." and the non-empty hyphen-separated fragments
\* of the input without its ".md" suffix and "novel-" prefix, joined by ".",
\* or the input itself when no fragment remains; the three examples of the
\* specification come out as stated.
C4_NormalizeMatchesRule ==
    named.done =>
        /\ named.val = RuleName(stem)
        /\ (stem = WriterNew => named.val = NovelWriterNew)
        /\ (stem = NovelSetup => named.val = NovelSetupName)
        /\ (stem = ConstitutionCreate => named.val = NovelConstitutionCreate)

\* A mixed-case prefix, an empty fragment and a real one have been normalised.
C4_Witness ==
    /\ named.done
    /\ stem = <<"N", "o", "v", "E", "L", "-", "-", "a">>
    /\ named.val = <<"n", "o", "v", "e", "l", ".", "a">>

\* The "novel-"-prefixed, hyphen-delimited shape of a source name.
NovelDashShape(s) == StartsWith(Lower(s), Lit.NovelDash)

\* C5 as stated: normalize is idempotent on s only when normalize(s) has the
\* "novel-"-prefixed shape, and a second application changes every other
\* output.
C5_IdempotentOnlyOnDashShape ==
    renamed.done => (renamed.val = named.val => NovelDashShape(named.val))

\* C5 as amended: normalize(normalize(s)) = normalize(s) exactly when s yields
\* no fragment, and then normalize(s) = s (the fallback), whatever the shape
\* of s; when s yields a fragment the output starts with "novel." and a second
\* application returns a different string.
C5_IdempotentIffFallback ==
    renamed.done =>
        /\ (renamed.val = named.val) <=> NoFragment(stem)
        /\ NoFragment(stem) => named.val = stem
        /\ ~NoFragment(stem) => StartsWith(named.val, Lit.NovelDot)

\* A fallback output without the "novel-" shape on which normalize is
\* idempotent.
C5_Witness ==
    /\ renamed.done
    /\ stem = <<"-", ".", "m", "d">>
    /\ ~NovelDashShape(named.val)
    /\ renamed.val = named.val

(***************************************************************************)
(* FrontMatterParser: parse_frontmatter.                                   *)
(***************************************************************************)

\* A dict: a function from keys (str) to values.  A value is a str or a dict.
EmptyMap == [k \in {} |-> <<>>]
StrVal(s) == [kind |-> "str", str |-> s, dict |-> EmptyMap]
DictVal(m) == [kind |-> "dict", str |-> <<>>, dict |-> m]

\* d[k] = v
Put(d, k, v) == [x \in (DOMAIN d) \cup {k} |-> IF x = k THEN v ELSE d[x]]

\* A slip: the value's treatment applied to the key as well.
LineKeyDequoted(line_stripped) ==
    StripChars(StripChars(Strip(SplitMax(line_stripped, Lit.Colon, 1)[1]), {"\""}), {"'"})

\* key, value = line_stripped.split(":", 1); key = key.strip()
LineKey(line_stripped) == Strip(SplitMax(line_stripped, Lit.Colon, 1)[1])

\* The value loses its whitespace and one matching pair of quotes around it.
LineValueOnePair(line_stripped) ==
    LET value == Strip(SplitMax(line_stripped, Lit.Colon, 1)[2])
    IN IF Len(value) >= 2 /\ value[1] = value[Len(value)] /\ value[1] \in {"\"", "'"}
       THEN SubSeq(value, 2, Len(value) - 1)
       ELSE value

\* value = value.strip().strip('"').strip("'")
LineValue(line_stripped) ==
    StripChars(StripChars(Strip(SplitMax(line_stripped, Lit.Colon, 1)[2]), {"\""}), {"'"})

\* A slip: a tab at the start of the line is not looked for.
IndentedBySpace(line) == StartsWith(line, <<" ">>)

\* line.startswith(" ") or line.startswith("\t")
Indented(line) == StartsWith(line, <<" ">>) \/ StartsWith(line, <<"\t">>)

\* One pass of the loop body over `line`; st = [in_scripts, scripts, frontmatter].
ParseLine(st, line) ==
    LET line_stripped == Strip(line)
        in_scripts == IF st.in_scripts /\ Contains(line_stripped, Lit.Colon) /\ ~Indented(line)
                      THEN FALSE ELSE st.in_scripts
    IN IF line_stripped = <<>> THEN st
       ELSE IF line_stripped = Lit.ScriptsColon THEN [st EXCEPT !.in_scripts = TRUE]
       ELSE IF in_scripts
       THEN IF Indented(line) /\ Contains(line_stripped, Lit.Colon)
            THEN [st EXCEPT !.in_scripts = in_scripts,
                            !.scripts = Put(st.scripts, LineKey(line_stripped),
                                            LineValue(line_stripped))]
            ELSE [st EXCEPT !.in_scripts = in_scripts]
       ELSE IF Contains(line_stripped, Lit.Colon)
            THEN [st EXCEPT !.in_scripts = in_scripts,
                            !.frontmatter = Put(st.frontmatter, LineKey(line_stripped),
                                                StrVal(LineValue(line_stripped)))]
            ELSE [st EXCEPT !.in_scripts = in_scripts]

\* for line in frontmatter_text.split("\n"): ...
RECURSIVE ParseLines(_, _)
ParseLines(st, lines) ==
    IF lines = <<>> THEN st ELSE ParseLines(ParseLine(st, Head(lines)), Tail(lines))

ParseStart == [in_scripts |-> FALSE, scripts |-> EmptyMap, frontmatter |-> EmptyMap]

\* if scripts: frontmatter["scripts"] = scripts
AttachScripts(st) ==
    IF DOMAIN st.scripts # {}
    THEN Put(st.frontmatter, Lit.ScriptsKey, DictVal(st.scripts))
    ELSE st.frontmatter

\* A slip: a top-level "scripts" entry is not overwritten by the nested mapping.
AttachScriptsUnlessPresent(st) ==
    IF DOMAIN st.scripts # {} /\ Lit.ScriptsKey \notin DOMAIN st.frontmatter
    THEN Put(st.frontmatter, Lit.ScriptsKey, DictVal(st.scripts))
    ELSE st.frontmatter

\* A slip: the delimiter is looked for anywhere in the text.
HasDelimiterAnywhere(content) == Contains(content, Lit.Delim)

\* content.startswith("---")
HasFrontmatterPrefix(content) == StartsWith(content, Lit.Delim)

parse_frontmatter(content) ==
    IF ~HasFrontmatterPrefix(content)
    THEN [frontmatter |-> EmptyMap, body |-> content]
    ELSE LET parts == SplitMax(content, Lit.Delim, 2)
         IN IF Len(parts) < 3
            THEN [frontmatter |-> EmptyMap, body |-> content]
            ELSE LET frontmatter_text == Strip(parts[2])
                     st == ParseLines(ParseStart, Split(frontmatter_text, Lit.Newline))
                 IN [frontmatter |-> AttachScripts(st), body |-> parts[3]]

(***************************************************************************)
(* Inputs of the FrontMatterParser specification.                          *)
(***************************************************************************)
\* Documents without a frame: any text assembled from these pieces.
RawPieces ==
    { <<"-", "-", "-">>, <<"\n">>, <<"a", ":", " ", "b">>, <<"-">>, <<"x">> }

\* Lines of a front-matter block.
FmLine ==
    [ scripts |-> <<"s", "c", "r", "i", "p", "t", "s", ":">>,
      sh |-> <<" ", "s", "h", ":", " ", "\"", "a", "\"">>,
      quoted_ps |-> <<"\t", "\"", "p", "s", "\"", " ", ":", " ", "'", "b", "'">>,
      sh_empty |-> <<" ", "s", "h", ":">>,
      description |-> <<"d", "e", "s", "c", "r", "i", "p", "t", "i", "o", "n", ":", " ", "\"", "x", "\"">>,
      scripts_scalar |-> <<"s", "c", "r", "i", "p", "t", "s", ":", " ", "z">>,
      no_colon |-> <<"k">>,
      blank |-> <<>>,
      mismatched |-> <<"m", ":", " ", "\"", "x", "'">>,
      unmatched |-> <<" ", "u", ":", " ", "\"", "x">>,
      layered |-> <<"l", ":", " ", "\"", "\"", "x", "\"", "\"">> ]

BlockLines ==
    { FmLine.scripts, FmLine.sh, FmLine.quoted_ps, FmLine.sh_empty, FmLine.description,
      FmLine.scripts_scalar, FmLine.no_colon, FmLine.blank,
      FmLine.mismatched, FmLine.unmatched, FmLine.layered }

RECURSIVE LineSeqs(_)
LineSeqs(n) ==
    IF n = 0 THEN {<<>>}
    ELSE LET shorter == LineSeqs(n - 1)
         IN shorter \cup {Append(ls, l) : ls \in shorter, l \in BlockLines}

\* The text after the closing delimiter.
Tails == { <<"\n", "B">> }

\* "---\n" + lines + "\n---" + tail
Framed(lines, tail) == Lit.Delim \o Lit.Newline \o Join(lines, Lit.Newline) \o Lit.Newline \o Lit.Delim \o tail

RawDocs ==
    {[raw |-> r, framed |-> FALSE, lines |-> <<>>, tail |-> <<>>] :
        r \in PieceStrings(RawPieces, MaxRawPieces)}

FramedDocs ==
    {[raw |-> Framed(ls, tl), framed |-> TRUE, lines |-> ls, tail |-> tl] :
        ls \in LineSeqs(MaxLines), tl \in Tails}

InitParse ==
    /\ doc \in RawDocs \cup FramedDocs
    /\ parsed = NotDone
    /\ NamerIdle
    /\ ConverterIdle
    /\ BuilderIdle
    /\ DownloaderIdle

\* frontmatter, body = parse_frontmatter(content)
Parse ==
    /\ ~parsed.done
    /\ parsed' = Done(parse_frontmatter(doc.raw))
    /\ UNCHANGED <<doc, stem, named, renamed, job, converted, buildVars, cache, fetched>>

NextParse == Parse

SpecParse == InitParse /\ [][NextParse]_vars

(***************************************************************************)
(* FrontMatterParser: the claims.                                          *)
(***************************************************************************)
\* C1: for every raw text that does not start with "---", and for every raw
\* text that starts with "---" and holds no second "---" (fewer than three
\* segments), parse_frontmatter returns an empty front matter and a body equal
\* to the raw text.
C1_IdentityWithoutFrontmatter ==
    LET opens == Len(doc.raw) >= 3 /\ \A i \in 1..3 : doc.raw[i] = "-"
        closes == \E i \in 4..(Len(doc.raw) - 2) : \A j \in i..(i + 2) : doc.raw[j] = "-"
    IN (parsed.done /\ (~opens \/ ~closes))
           => (DOMAIN parsed.val.frontmatter = {} /\ parsed.val.body = doc.raw)

\* An unterminated block that holds a key/value line has been parsed.
C1_Witness ==
    /\ parsed.done
    /\ doc.raw = <<"-", "-", "-", "\n", "a", ":", " ", "b">>
    /\ parsed.val.body = doc.raw

\* s without its leading and trailing characters of `chars`.
Trimmed(s, chars) ==
    LET keep == {i \in 1..Len(s) : s[i] \notin chars}
    IN IF keep = {} THEN <<>>
       ELSE SubSeq(s, CHOOSE i \in keep : \A j \in keep : i <= j,
                      CHOOSE i \in keep : \A j \in keep : j <= i)

\* s without one matching pair of surrounding quote characters.
DeQuoted(s) ==
    IF Len(s) >= 2 /\ s[1] = s[Len(s)] /\ s[1] \in {"\"", "'"}
    THEN SubSeq(s, 2, Len(s) - 1) ELSE s

\* The two sides of a `key: value` line, cut at its first colon.
BeforeColon(l) == SubSeq(l, 1, Find(l, Lit.Colon) - 1)
AfterColon(l) == SubSeq(l, Find(l, Lit.Colon) + 1, Len(l))

IsScriptsLine(l) == Trimmed(l, Whitespace) = Lit.ScriptsColon
IsKeyValueLine(l) == \E i \in 1..Len(l) : l[i] = ":"
IsIndentedLine(l) == l # <<>> /\ l[1] \in {" ", "\t"}

\* The first `scripts:` line of ls (0 when there is none), and the first
\* non-indented line containing ":" after it (Len(ls) + 1 when there is none).
FirstScripts(ls) ==
    LET at == {i \in 1..Len(ls) : IsScriptsLine(ls[i])}
    IN IF at = {} THEN 0 ELSE CHOOSE i \in at : \A j \in at : i <= j

BlockEnd(ls) ==
    LET at == {j \in (FirstScripts(ls) + 1)..Len(ls) :
                  IsKeyValueLine(ls[j]) /\ ~IsIndentedLine(ls[j])}
    IN IF at = {} THEN Len(ls) + 1 ELSE CHOOSE j \in at : \A k \in at : j <= k

\* The indented `key: value` lines of the scripts block.
NestedLines(ls) ==
    {i \in (FirstScripts(ls) + 1)..(BlockEnd(ls) - 1) :
        IsIndentedLine(ls[i]) /\ IsKeyValueLine(ls[i])}

\* The top-level `key: value` lines outside the scripts block.
TopLevelLines(ls) ==
    {i \in 1..Len(ls) :
        /\ i < FirstScripts(ls) \/ i >= BlockEnd(ls)
        /\ IsKeyValueLine(ls[i]) /\ ~IsIndentedLine(ls[i]) /\ ~IsScriptsLine(ls[i])}

\* ls without its scripts block.
WithoutBlock(ls) ==
    SubSeq(ls, 1, FirstScripts(ls) - 1) \o SubSeq(ls, BlockEnd(ls), Len(ls))

\* frontmatter["scripts"] when it is a mapping, the empty mapping otherwise.
ScriptsOf(fm) ==
    IF Lit.ScriptsKey \in DOMAIN fm /\ fm[Lit.ScriptsKey].kind = "dict"
    THEN fm[Lit.ScriptsKey].dict ELSE EmptyMap

\* Every line of `at` has its top-level entry in fm, with the value the same
\* line has when the document is parsed without its scripts block.
SameAsWithoutBlock(fm, ls, tl, at) ==
    LET other == parse_frontmatter(Framed(WithoutBlock(ls), tl)).frontmatter
    IN \A i \in at :
        LET key == Trimmed(BeforeColon(ls[i]), Whitespace)
        IN key \in DOMAIN fm /\ key \in DOMAIN other /\ fm[key] = other[key]

StoredNested(ls) ==
    {j \in 1..Len(ls) :
        /\ IsIndentedLine(ls[j]) /\ IsKeyValueLine(ls[j]) /\ ~IsScriptsLine(ls[j])
        /\ \E f \in 1..(j - 1) :
            /\ IsScriptsLine(ls[f])
            /\ \A k \in (f + 1)..(j - 1) :
                (IsKeyValueLine(ls[k]) /\ ~IsScriptsLine(ls[k])) => IsIndentedLine(ls[k])}

LowerLetters ==
    {"a", "b", "c", "d", "e", "f", "g", "h", "i", "j", "k", "l", "m",
     "n", "o", "p", "q", "r", "s", "t", "u", "v", "w", "x", "y", "z"}

\* The first position from i on whose character is not in chars (Len(s) + 1
\* when there is none): where a greedy run of chars that starts at i ends.
RECURSIVE RunEnd(_, _, _)
RunEnd(s, i, chars) ==
    IF i <= Len(s) /\ s[i] \in chars THEN RunEnd(s, i + 1, chars) ELSE i

\* Where `.*` ends: the first newline from i on, or Len(s) + 1.
RECURSIVE LineEnd(_, _)
LineEnd(s, i) == IF i <= Len(s) /\ s[i] # "\n" THEN LineEnd(s, i + 1) ELSE i

\* One repetition of (?:\s+[a-z]+:.*\n?) at position i: the position after it,
\* 0 when it does not match.
MatchItem(s, i) ==
    LET w == RunEnd(s, i, Whitespace)
        k == RunEnd(s, w, LowerLetters)
        e == LineEnd(s, k + 1)
    IN IF w > i /\ k > w /\ k <= Len(s) /\ s[k] = ":"
       THEN (IF e <= Len(s) THEN e + 1 ELSE e)
       ELSE 0

\* (?:...)+ from position i, greedy: the position after the last repetition.
RECURSIVE MatchItems(_, _)
MatchItems(s, i) ==
    LET n == MatchItem(s, i) IN IF n = 0 THEN i ELSE MatchItems(s, n)

\* `scripts:\s*\n` matched from position p, with a first repetition after it:
\* the start of group 1 (the newline is the last one of the whitespace run
\* that leaves whitespace for the repetition), 0 when there is no match at p.
GroupStart(s, p) ==
    LET q == p + Len(Lit.ScriptsColon)
        w == RunEnd(s, q, Whitespace)
        nl == {k \in q..(w - 2) : s[k] = "\n"}
        k == CHOOSE x \in nl : \A y \in nl : y <= x
    IN IF /\ (p = 1 \/ s[p - 1] = "\n")
          /\ p + Len(Lit.ScriptsColon) - 1 <= Len(s)
          /\ SubSeq(s, p, p + Len(Lit.ScriptsColon) - 1) = Lit.ScriptsColon
          /\ nl # {}
          /\ MatchItem(s, k + 1) # 0
       THEN k + 1
       ELSE 0

\* re.search(r"^scripts:\s*\n((?:\s+[a-z]+:.*\n?)+)", content, re.MULTILINE):
\* group 1 of the leftmost match, hit = FALSE when there is none.
SearchScripts(content) ==
    LET at == {p \in 1..Len(content) : GroupStart(content, p) # 0}
        p == CHOOSE x \in at : \A y \in at : x <= y
        g == GroupStart(content, p)
    IN IF at = {} THEN [hit |-> FALSE, group |-> <<>>]
       ELSE [hit |-> TRUE, group |-> SubSeq(content, g, MatchItems(content, g) - 1)]

\* The loop over scripts_text.split("\n").
RECURSIVE ExtractLines(_, _)
ExtractLines(scripts, lines) ==
    IF lines = <<>> THEN scripts
    ELSE LET line == Strip(Head(lines))
         IN ExtractLines(
                IF line # <<>> /\ Contains(line, Lit.Colon)
                THEN Put(scripts, LineKey(line), LineValue(line))
                ELSE scripts,
                Tail(lines))

extract_scripts_from_content(content) ==
    LET scripts_match == SearchScripts(content)
    IN IF scripts_match.hit
       THEN ExtractLines(EmptyMap, Split(scripts_match.group, Lit.Newline))
       ELSE EmptyMap

(***************************************************************************)
(* ProfileRegistry: AI_ENV_CONFIG.                                         *)
(***************************************************************************)

Ai ==
    [ claude |-> <<"c", "l", "a", "u", "d", "e">>,
      gemini |-> <<"g", "e", "m", "i", "n", "i">>,
      copilot |-> <<"c", "o", "p", "i", "l", "o", "t">>,
      cursor_agent |-> <<"c", "u", "r", "s", "o", "r", "-", "a", "g", "e", "n", "t">>,
      cursor |-> <<"c", "u", "r", "s", "o", "r">>,
      qwen |-> <<"q", "w", "e", "n">>,
      opencode |-> <<"o", "p", "e", "n", "c", "o", "d", "e">>,
      windsurf |-> <<"w", "i", "n", "d", "s", "u", "r", "f">>,
      codex |-> <<"c", "o", "d", "e", "x">>,
      kilocode |-> <<"k", "i", "l", "o", "c", "o", "d", "e">>,
      auggie |-> <<"a", "u", "g", "g", "i", "e">>,
      roo |-> <<"r", "o", "o">>,
      codebuddy |-> <<"c", "o", "d", "e", "b", "u", "d", "d", "y">>,
      qoder |-> <<"q", "o", "d", "e", "r">>,
      amp |-> <<"a", "m", "p">>,
      shai |-> <<"s", "h", "a", "i">>,
      q |-> <<"q">>,
      bob |-> <<"b", "o", "b">> ]

\* A profile: folder is the path of the command subtree, one name per level.
Profile(folder, format, arg_format) ==
    [folder |-> folder, format |-> format, arg_format |-> arg_format,
     name_converter |-> "to_novel_command_name"]

AI_ENV_CONFIG ==
    Ai.claude :> Profile(<<<<".", "c", "l", "a", "u", "d", "e">>, <<"c", "o", "m", "m", "a", "n", "d", "s">>>>,
        Lit.FormatMd, Lit.ArgDollar)
    @@
    Ai.gemini :> Profile(<<<<".", "g", "e", "m", "i", "n", "i">>, <<"c", "o", "m", "m", "a", "n", "d", "s">>>>,
        Lit.FormatToml, Lit.ArgBraces)
    @@
    Ai.copilot :> Profile(<<<<".", "g", "i", "t", "h", "u", "b">>, <<"a", "g", "e", "n", "t", "s">>>>,
        Lit.FormatAgentMd, Lit.ArgDollar)
    @@
    Ai.cursor_agent :> Profile(<<<<".", "c", "u", "r", "s", "o", "r">>, <<"c", "o", "m", "m", "a", "n", "d", "s">>>>,
        Lit.FormatMd, Lit.ArgDollar)
    @@
    Ai.cursor :> Profile(<<<<".", "c", "u", "r", "s", "o", "r">>, <<"c", "o", "m", "m", "a", "n", "d", "s">>>>,
        Lit.FormatMd, Lit.ArgDollar)
    @@
    Ai.qwen :> Profile(<<<<".", "q", "w", "e", "n">>, <<"c", "o", "m", "m", "a", "n", "d", "s">>>>,
        Lit.FormatToml, Lit.ArgBraces)
    @@
    Ai.opencode :> Profile(<<<<".", "o", "p", "e", "n", "c", "o", "d", "e">>, <<"c", "o", "m", "m", "a", "n", "d">>>>,
        Lit.FormatMd, Lit.ArgDollar)
    @@
    Ai.windsurf :> Profile(<<<<".", "w", "i", "n", "d", "s", "u", "r", "f">>, <<"w", "o", "r", "k", "f", "l", "o", "w", "s">>>>,
        Lit.FormatMd, Lit.ArgDollar)
    @@
    Ai.codex :> Profile(<<<<".", "c", "o", "d", "e", "x">>, <<"p", "r", "o", "m", "p", "t", "s">>>>,
        Lit.FormatMd, Lit.ArgDollar)
    @@
    Ai.kilocode :> Profile(<<<<".", "k", "i", "l", "o", "c", "o", "d", "e">>, <<"w", "o", "r", "k", "f", "l", "o", "w", "s">>>>,
        Lit.FormatMd, Lit.ArgDollar)
    @@
    Ai.auggie :> Profile(<<<<".", "a", "u", "g", "m", "e", "n", "t">>, <<"c", "o", "m", "m", "a", "n", "d", "s">>>>,
        Lit.FormatMd, Lit.ArgDollar)
    @@
    Ai.roo :> Profile(<<<<".", "r", "o", "o">>, <<"c", "o", "m", "m", "a", "n", "d", "s">>>>,
        Lit.FormatMd, Lit.ArgDollar)
    @@
    Ai.codebuddy :> Profile(<<<<".", "c", "o", "d", "e", "b", "u", "d", "d", "y">>, <<"c", "o", "m", "m", "a", "n", "d", "s">>>>,
        Lit.FormatMd, Lit.ArgDollar)
    @@
    Ai.qoder :> Profile(<<<<".", "q", "o", "d", "e", "r">>, <<"c", "o", "m", "m", "a", "n", "d", "s">>>>,
        Lit.FormatMd, Lit.ArgDollar)
    @@
    Ai.amp :> Profile(<<<<".", "a", "g", "e", "n", "t", "s">>, <<"c", "o", "m", "m", "a", "n", "d", "s">>>>,
        Lit.FormatMd, Lit.ArgDollar)
    @@
    Ai.shai :> Profile(<<<<".", "s", "h", "a", "i">>, <<"c", "o", "m", "m", "a", "n", "d", "s">>>>,
        Lit.FormatMd, Lit.ArgDollar)
    @@
    Ai.q :> Profile(<<<<".", "a", "m", "a", "z", "o", "n", "q">>, <<"p", "r", "o", "m", "p", "t", "s">>>>,
        Lit.FormatMd, Lit.ArgDollar)
    @@
    Ai.bob :> Profile(<<<<".", "b", "o", "b">>, <<"c", "o", "m", "m", "a", "n", "d", "s">>>>,
        Lit.FormatMd, Lit.ArgDollar)

(***************************************************************************)
(* ScriptSelector, placeholder substitution and OutputRenderer:            *)
(* convert_command_file.                                                   *)
(***************************************************************************)
Linux == <<"l", "i", "n", "u", "x">>
Win == <<"w", "i", "n">>

\* frontmatter.get(key, default)
Get(d, k, default) == IF k \in DOMAIN d THEN d[k] ELSE default

\* not v, for a value that is a str or a dict.
Falsy(v) == IF v.kind = "str" THEN v.str = <<>> ELSE DOMAIN v.dict = {}

\* scripts = frontmatter.get("scripts", {}); if not scripts: scripts =
\* extract_scripts_from_content(content)
ScriptsFor(content, frontmatter) ==
    LET scripts == Get(frontmatter, Lit.ScriptsKey, DictVal(EmptyMap))
    IN IF Falsy(scripts) THEN DictVal(extract_scripts_from_content(content)) ELSE scripts

\* A slip: the key of the Windows platform is tested instead.
ScriptKeyWinOnly(platform) == IF platform = Win THEN Lit.KeyPs ELSE Lit.KeySh

\* script_key = "sh" if platform == "linux" else "ps"
ScriptKey(platform) == IF platform = Linux THEN Lit.KeySh ELSE Lit.KeyPs

\* f"(Missing {script_key} script)"
MissingStub(script_key) == Lit.MissingOpen \o script_key \o Lit.MissingClose

\* A slip: a key that is present is used even when its value is empty.
SelectScriptIfPresent(scripts, script_key) ==
    IF script_key \in DOMAIN scripts
    THEN [script_command |-> scripts[script_key], missing |-> FALSE]
    ELSE [script_command |-> MissingStub(script_key), missing |-> TRUE]

\* script_command = scripts.get(script_key, ""); if not script_command: warn
\* and use the stub.
SelectScript(scripts, script_key) ==
    LET script_command == Get(scripts, script_key, <<>>)
    IN IF script_command = <<>>
       THEN [script_command |-> MissingStub(script_key), missing |-> TRUE]
       ELSE [script_command |-> script_command, missing |-> FALSE]

\* A slip: the argument placeholders are replaced before {SCRIPT}.
SubstituteArgsFirst(body, script_command, arg_format) ==
    Replace(Replace(Replace(body, Lit.PlaceholderArguments, arg_format),
                    Lit.PlaceholderArgs, arg_format),
            Lit.PlaceholderScript, script_command)

\* The three body.replace calls, in the order of the code.
Substitute(body, script_command, arg_format) ==
    Replace(Replace(Replace(body, Lit.PlaceholderScript, script_command),
                    Lit.PlaceholderArguments, arg_format),
            Lit.PlaceholderArgs, arg_format)

\* rewrite_paths returns its argument.
rewrite_paths(content) == content

\* body.replace("\\", "\\\\").replace('"', '\\"')
Escaped(body) == Replace(Replace(body, <<"\\">>, <<"\\", "\\">>), <<"\"">>, <<"\\", "\"">>)

\* A slip the other way: the escaped body is the one that is emitted.
RenderTomlEscaped(description, body) ==
    Lit.TomlDescriptionOpen \o description \o <<"\"", "\n", "\n">> \o Lit.TomlPromptOpen
        \o Escaped(body) \o Lit.TomlPromptClose

\* f'description = "{description}"\n\nprompt = """\n{body}\n"""'
RenderToml(description, body) ==
    Lit.TomlDescriptionOpen \o description \o <<"\"", "\n", "\n">> \o Lit.TomlPromptOpen
        \o body \o Lit.TomlPromptClose

\* A slip: the agent format re-emits the description as a front matter.
RenderWithHeader(format_type, description, body) ==
    IF format_type = Lit.FormatToml THEN RenderToml(description, body)
    ELSE IF format_type = Lit.FormatAgentMd
    THEN Lit.Delim \o Lit.Newline \o Lit.DescriptionKey \o <<":", " ">> \o description \o Lit.Newline
         \o Lit.Delim \o body
    ELSE body

\* The text written for format_type.
Render(format_type, description, body) ==
    IF format_type = Lit.FormatToml THEN RenderToml(description, body)
    ELSE IF format_type = Lit.FormatAgentMd THEN body
    ELSE body

\* What one call of convert_command_file does: skipped (no profile), raised
\* (scripts is a str, which has no get), or a file name and its text, with the
\* values computed on the way.
NoFile ==
    [skipped |-> FALSE, raised |-> FALSE, warned |-> FALSE, scripts |-> EmptyMap,
     script_key |-> <<>>, script_command |-> <<>>, parsed_body |-> <<>>,
     description |-> <<>>, body |-> <<>>, name |-> <<>>, text |-> <<>>]

convert_command_file(content, base_name, ai, platform) ==
    IF ai \notin DOMAIN AI_ENV_CONFIG THEN [NoFile EXCEPT !.skipped = TRUE, !.warned = TRUE]
    ELSE
    LET config == AI_ENV_CONFIG[ai]
        fm == parse_frontmatter(content)
        description == Get(fm.frontmatter, Lit.DescriptionKey, StrVal(<<>>)).str
        scripts == ScriptsFor(content, fm.frontmatter)
        script_key == ScriptKey(platform)
        sel == SelectScript(scripts.dict, script_key)
        body == rewrite_paths(Substitute(fm.body, sel.script_command, config.arg_format))
        new_name == to_novel_command_name(base_name, <<>>)
    IN IF scripts.kind = "str" THEN [NoFile EXCEPT !.raised = TRUE]
       ELSE [skipped |-> FALSE, raised |-> FALSE, warned |-> sel.missing,
             scripts |-> scripts.dict, script_key |-> script_key,
             script_command |-> sel.script_command, parsed_body |-> fm.body,
             description |-> description, body |-> body,
             name |-> new_name \o <<".">> \o config.format,
             text |-> Render(config.format, description, body)]

(***************************************************************************)
(* Inputs of the convert_command_file specification.                       *)
(***************************************************************************)
CmdLine ==
    [ sh_args |-> <<" ", "s", "h", ":", " ", "r", "u", "n", " ", "{", "A", "R", "G", "S", "}">>,
      ps_arguments |-> <<" ", "p", "s", ":", " ", "\"", "p", " ", "$", "A", "R", "G", "U", "M", "E", "N", "T", "S", "\"">> ]

PlatformMac == <<"m", "a", "c">>
PlatformAgentLinux == <<"a", "g", "e", "n", "t", "-", "l", "i", "n", "u", "x">>
AiUnknown == <<"n", "o", "b", "o", "d", "y">>

\* The front-matter blocks of the command documents.
FrontMatters ==
    { <<>>,
      <<FmLine.description, FmLine.scripts, CmdLine.sh_args, CmdLine.ps_arguments>>,
      <<FmLine.scripts, FmLine.sh_empty, CmdLine.ps_arguments>>,
      <<FmLine.description, FmLine.scripts, CmdLine.ps_arguments>>,
      <<FmLine.description, FmLine.scripts, FmLine.sh>>,
      <<FmLine.scripts_scalar>> }

\* The pieces a document body is assembled from.
BodyPieces ==
    { Lit.PlaceholderScript, Lit.PlaceholderArguments, Lit.PlaceholderArgs,
      <<"x">>, Lit.TripleQuote }

Bodies == {Lit.Newline \o b : b \in PieceStrings(BodyPieces, MaxBodyPieces)}

\* Documents without a front-matter block, read by the fallback scan only: a
\* `scripts:` line and an indented `sh:` line, then a `ps:` line at the start
\* of a line, either directly or behind a blank line.
UnframedDocs ==
    { Join(<<FmLine.scripts, FmLine.sh, <<"p", "s", ":", " ", "b">>, <<>>>>, Lit.Newline),
      Join(<<FmLine.scripts, FmLine.sh, <<>>, <<"p", "s", ":", " ", "b">>, <<>>>>, Lit.Newline) }

\* Command documents: a front-matter block and a body, and the same behind a
\* leading newline (no front matter is recognised, the fallback scan is used).
CommandDocs ==
    {Framed(f, b) : f \in FrontMatters, b \in Bodies}
    \cup {Lit.Newline \o Framed(<<FmLine.description, FmLine.scripts, CmdLine.sh_args, CmdLine.ps_arguments>>, b) :
             b \in Bodies}
    \cup UnframedDocs

Platforms == {Linux, Win, PlatformMac}

InitConvert ==
    /\ job \in [content : CommandDocs, base_name : {WriterNew},
                ai : (DOMAIN AI_ENV_CONFIG) \cup {AiUnknown}, platform : Platforms]
    /\ converted = NotDone
    /\ NamerIdle
    /\ ParserIdle
    /\ BuilderIdle
    /\ DownloaderIdle

\* convert_command_file(cmd_file, ai, platform, commands_target)
Convert ==
    /\ ~converted.done
    /\ converted' = Done(convert_command_file(job.content, job.base_name, job.ai,
                                              job.platform))
    /\ UNCHANGED <<job, stem, named, renamed, doc, parsed, buildVars, cache, fetched>>

NextConvert == Convert

SpecConvert == InitConvert /\ [][NextConvert]_vars

(***************************************************************************)
(* convert_command_file: the claims.                                       *)
(***************************************************************************)
\* A call that wrote a file.
Wrote == converted.done /\ ~converted.val.skipped /\ ~converted.val.raised

StubSh == <<"(", "M", "i", "s", "s", "i", "n", "g", " ", "s", "h", " ", "s", "c", "r", "i", "p", "t", ")">>
StubPs == <<"(", "M", "i", "s", "s", "i", "n", "g", " ", "p", "s", " ", "s", "c", "r", "i", "p", "t", ")">>

\* The key and the stub the platform of the job calls for.
WantedKey == IF job.platform = Linux THEN Lit.KeySh ELSE Lit.KeyPs
WantedStub == IF job.platform = Linux THEN StubSh ELSE StubPs

\* C3 as stated: the key is sh for linux and ps otherwise; a key that is
\* present selects exactly its mapped value, an absent key gives the stub
\* "(Missing <key> script)" with a warning.
C3_SelectionAsStated ==
    Wrote =>
        LET v == converted.val
        IN /\ v.script_key = WantedKey
           /\ WantedKey \in DOMAIN v.scripts => v.script_command = v.scripts[WantedKey]
           /\ WantedKey \notin DOMAIN v.scripts => (v.script_command = WantedStub /\ v.warned)

\* C3 as amended: the key is sh for linux and ps otherwise; a key that is
\* present with a non-empty value selects exactly that value, without a
\* warning; a key that is absent, or present with an empty value, gives the
\* stub "(Missing <key> script)" with a warning; and the selection raises
\* only when the front matter's scripts entry is a str instead of a mapping.
C3_SelectionAmended ==
    /\ Wrote =>
        LET v == converted.val
            present == WantedKey \in DOMAIN v.scripts /\ v.scripts[WantedKey] # <<>>
        IN /\ v.script_key = WantedKey
           /\ present => (v.script_command = v.scripts[WantedKey] /\ ~v.warned)
           /\ ~present => (v.script_command = WantedStub /\ v.warned)
    /\ (converted.done /\ converted.val.raised) =>
        LET fm == parse_frontmatter(job.content).frontmatter
        IN Lit.ScriptsKey \in DOMAIN fm /\ fm[Lit.ScriptsKey].kind = "str"

\* The sh key is present with an empty value on linux: the stub is selected.
C3_Witness ==
    /\ Wrote
    /\ job.platform = Linux
    /\ Lit.KeySh \in DOMAIN converted.val.scripts
    /\ converted.val.scripts[Lit.KeySh] = <<>>
    /\ converted.val.script_command = StubSh
    /\ converted.val.warned

NameWithoutSuffix(name, format_type) == DropLast(name, Len(format_type) + 1)

\* C7: for a profile whose format is md or agent.md the text written is the
\* substituted body and nothing else; an md profile and an agent.md profile
\* with the same argument token write the same text for the same document and
\* platform, under names that differ in the suffix only.
C7_MarkdownIsBody ==
    (Wrote /\ AI_ENV_CONFIG[job.ai].format \in {Lit.FormatMd, Lit.FormatAgentMd}) =>
        /\ converted.val.text = converted.val.body
        /\ \A other \in {Ai.claude, Ai.copilot} :
            LET o == convert_command_file(job.content, job.base_name, other, job.platform)
            IN AI_ENV_CONFIG[other].arg_format = AI_ENV_CONFIG[job.ai].arg_format =>
                /\ o.text = converted.val.text
                /\ NameWithoutSuffix(o.name, AI_ENV_CONFIG[other].format)
                       = NameWithoutSuffix(converted.val.name, AI_ENV_CONFIG[job.ai].format)
                /\ EndsWith(o.name, <<".">> \o AI_ENV_CONFIG[other].format)
                /\ EndsWith(converted.val.name, <<".">> \o AI_ENV_CONFIG[job.ai].format)

\* An agent.md file has been written for a document with a description: the
\* text is the body, the description is not in it.
C7_Witness ==
    /\ Wrote
    /\ job.ai = Ai.copilot
    /\ converted.val.description = <<"x">>
    /\ converted.val.text = converted.val.body
    /\ ~Contains(converted.val.text, Lit.DescriptionKey)
    /\ EndsWith(converted.val.name, <<".">> \o Lit.FormatAgentMd)

\* s with every occurrence of old replaced by new, read off one position
\* after the other from position i on.
RECURSIVE Scanned(_, _, _, _)
Scanned(s, i, old, new) ==
    IF i > Len(s) THEN <<>>
    ELSE IF i + Len(old) - 1 <= Len(s) /\ \A j \in 1..Len(old) : s[i + j - 1] = old[j]
    THEN new \o Scanned(s, i + Len(old), old, new)
    ELSE <<s[i]>> \o Scanned(s, i + 1, old, new)

\* C8: the rendered body is the parsed body with {SCRIPT} replaced by the
\* selected script text, then $ARGUMENTS, then {ARGS} replaced by the profile's
\* argument token, everything else unchanged; so the argument placeholders of
\* the inserted script text are replaced too, no {ARGS} is left for any
\* profile and no $ARGUMENTS for a profile whose token is {{args}}.
C8_Substitution ==
    Wrote =>
        LET v == converted.val
            token == AI_ENV_CONFIG[job.ai].arg_format
            step1 == Scanned(v.parsed_body, 1, Lit.PlaceholderScript, v.script_command)
            step2 == Scanned(step1, 1, Lit.PlaceholderArguments, token)
            step3 == Scanned(step2, 1, Lit.PlaceholderArgs, token)
        IN /\ v.body = step3
           /\ ~Contains(v.body, Lit.PlaceholderArgs)
           /\ token = Lit.ArgBraces => ~Contains(v.body, Lit.PlaceholderArguments)
           /\ v.parsed_body = (IF StartsWith(job.content, Lit.Delim)
                               THEN DropFirst(job.content,
                                              Len(job.content) - Len(v.parsed_body))
                               ELSE job.content)

\* A script text that holds {ARGS} has been inserted for a {{args}} profile:
\* the token stands where the placeholder of the script text was.
C8_Witness ==
    /\ Wrote
    /\ AI_ENV_CONFIG[job.ai].arg_format = Lit.ArgBraces
    /\ Contains(converted.val.script_command, Lit.PlaceholderArgs)
    /\ Contains(converted.val.parsed_body, Lit.PlaceholderScript)
    /\ Contains(converted.val.body, <<"r", "u", "n", " ">> \o Lit.ArgBraces)
    /\ ~Contains(converted.val.body, Lit.PlaceholderArgs)

(***************************************************************************)
(* BuildOrchestrator: the file system, copy_tree and build_for_ai.         *)
(*                                                                         *)
(* A path is a sequence of names.  The tree under repo_root/dist is a set   *)
(* of entries [path, kind, data]; the sources of a build are a record of    *)
(* the things build_for_ai looks at under repo_root.                        *)
(***************************************************************************)
\* The names build_for_ai gives to what it reads and writes.
PathName ==
    [ novelkit |-> <<".", "n", "o", "v", "e", "l", "k", "i", "t">>,
      memory |-> <<"m", "e", "m", "o", "r", "y">>,
      config_json |-> <<"c", "o", "n", "f", "i", "g", ".", "j", "s", "o", "n">>,
      templates |-> <<"t", "e", "m", "p", "l", "a", "t", "e", "s">>,
      scripts |-> <<"s", "c", "r", "i", "p", "t", "s">>,
      bash |-> <<"b", "a", "s", "h">>,
      powershell |-> <<"p", "o", "w", "e", "r", "s", "h", "e", "l", "l">>,
      gemini_md |-> <<"G", "E", "M", "I", "N", "I", ".", "m", "d">>,
      qwen_md |-> <<"Q", "W", "E", "N", ".", "m", "d">>,
      vscode |-> <<".", "v", "s", "c", "o", "d", "e">>,
      settings_json |-> <<"s", "e", "t", "t", "i", "n", "g", "s", ".", "j", "s", "o", "n">>,
      vscode_settings_json |-> <<"v", "s", "c", "o", "d", "e", "-", "s", "e", "t", "t", "i", "n", "g", "s", ".", "j", "s", "o", "n">> ]

Dir(path) == [path |-> path, kind |-> "dir", data |-> <<>>]
File(path, data) == [path |-> path, kind |-> "file", data |-> data]

\* path.exists()
Exists(fs, path) == \E e \in fs : e.path = path

\* The entries at path and below it.
Under(fs, path) ==
    {e \in fs : Len(e.path) >= Len(path) /\ SubSeq(e.path, 1, Len(path)) = path}

\* shutil.rmtree(path), for a directory.
rmtree(fs, path) == fs \ Under(fs, path)

\* path.mkdir(parents=True, exist_ok=True)
Mkdirs(fs, path) == fs \cup {Dir(SubSeq(path, 1, n)) : n \in 1..Len(path)}

\* shutil.copy2(src, path) and path.write_text(data): the file at path is
\* created or overwritten.
WriteFile(fs, path, data) == {e \in fs : e.path # path} \cup {File(path, data)}

\* A source tree: nothing at its path, a file, or a directory with the
\* entries below it (paths relative to it).
NoTree == [kind |-> "none", entries |-> {}, data |-> <<>>]
FileAt(data) == [kind |-> "file", entries |-> {}, data |-> data]
DirOf(entries) == [kind |-> "dir", entries |-> entries, data |-> <<>>]

\* copy_tree(src, dst): [fs, raised].  A src that is a file makes
\* src.iterdir() raise after dst was created.
copy_tree(fs, src, dst) ==
    IF src.kind = "none" THEN [fs |-> fs, raised |-> FALSE]
    ELSE IF src.kind = "file" THEN [fs |-> Mkdirs(fs, dst), raised |-> TRUE]
    ELSE [fs |-> {e \in Mkdirs(fs, dst) : \A s \in src.entries : e.path # dst \o s.path}
                 \cup {[path |-> dst \o s.path, kind |-> s.kind, data |-> s.data] :
                          s \in src.entries},
          raised |-> FALSE]

\* f"{ai}-{platform}"
DistRootName(ai, platform) == ai \o <<"-">> \o platform

\* A warning printed to stderr.
Warning(kind, about) == [kind |-> kind, about |-> about]

(***************************************************************************)
(* build_for_ai.                                                           *)
(***************************************************************************)

\* Names of files and directories of the sources and of stray content.
Sample ==
    [ a_txt |-> <<"a", ".", "t", "x", "t">>,
      sub |-> <<"s", "u", "b">>,
      b_txt |-> <<"b", ".", "t", "x", "t">>,
      common_sh |-> <<"c", "o", "m", "m", "o", "n", ".", "s", "h">>,
      common_ps1 |-> <<"c", "o", "m", "m", "o", "n", ".", "p", "s", "1">>,
      old |-> <<"o", "l", "d">>,
      stray_txt |-> <<"s", "t", "r", "a", "y", ".", "t", "x", "t">>,
      bad |-> <<"b", "a", "d">> ]

\* What a call leaves behind: the entries under dist, whether it raised and
\* with what, the warnings printed, and the path returned.
Outcome(fs, raised, error, warnings, ret) ==
    [fs |-> fs, raised |-> raised, error |-> error, warnings |-> warnings, ret |-> ret]

\* The build after some of its steps: the entries under dist, whether a step
\* has raised and with what, and the warnings printed so far.  A step after
\* one that raised is not run.
Step(fs, raised, error, warnings) ==
    [fs |-> fs, raised |-> raised, error |-> error, warnings |-> warnings]

\* The destination keeps what it held.
CleanNothing(fs, dist_root) == fs

\* if dist_root.exists(): shutil.rmtree(dist_root)
Clean(fs, dist_root) == IF Exists(fs, dist_root) THEN rmtree(fs, dist_root) ELSE fs

\* 1. the destination is cleaned, meta_target and commands_target are made.
StageTargets(fs, dist_root, meta_target, commands_target) ==
    Step(Mkdirs(Mkdirs(Clean(fs, dist_root), meta_target), commands_target), FALSE, "", {})

\* 2.1 memory/config.json
StageMemory(st, src, meta_target) ==
    IF st.raised THEN st
    ELSE IF src.config.kind = "file"
    THEN [st EXCEPT !.fs = WriteFile(Mkdirs(@, meta_target \o <<PathName.memory>>),
                                     meta_target \o <<PathName.memory, PathName.config_json>>,
                                     src.config.data)]
    ELSE [st EXCEPT !.fs = Mkdirs(@, meta_target \o <<PathName.memory>>),
                    !.warnings = @ \cup {Warning("config.json not found", <<>>)}]

\* A missing templates/ is warned about.
StageTemplatesOrWarn(st, src, meta_target) ==
    IF st.raised THEN st
    ELSE IF src.templates.kind = "file"
    THEN [st EXCEPT !.fs = copy_tree(@, src.templates, meta_target \o <<PathName.templates>>).fs,
                    !.raised = TRUE,
                    !.error = "NotADirectoryError"]
    ELSE IF src.templates.kind = "none"
    THEN [st EXCEPT !.warnings = @ \cup {Warning("templates not found", <<>>)}]
    ELSE [st EXCEPT !.fs = copy_tree(@, src.templates, meta_target \o <<PathName.templates>>).fs]

\* 2.2 templates/
StageTemplates(st, src, meta_target) ==
    IF st.raised THEN st
    ELSE IF src.templates.kind = "file"
    THEN [st EXCEPT !.fs = copy_tree(@, src.templates, meta_target \o <<PathName.templates>>).fs,
                    !.raised = TRUE,
                    !.error = "NotADirectoryError"]
    ELSE [st EXCEPT !.fs = copy_tree(@, src.templates, meta_target \o <<PathName.templates>>).fs]

\* 2.3 scripts/: the subtree of the platform only.
StageScripts(st, src, platform, meta_target) ==
    IF st.raised THEN st
    ELSE IF platform = Linux
    THEN IF src.bash.kind = "dir"
         THEN [st EXCEPT !.fs = copy_tree(Mkdirs(@, meta_target \o <<PathName.scripts>>),
                                          src.bash,
                                          meta_target \o <<PathName.scripts, PathName.bash>>).fs]
         ELSE [st EXCEPT !.fs = Mkdirs(@, meta_target \o <<PathName.scripts>>),
                         !.warnings = @ \cup {Warning("scripts/bash not found", platform)}]
    ELSE IF platform = Win
    THEN IF src.powershell.kind = "dir"
         THEN [st EXCEPT !.fs = copy_tree(Mkdirs(@, meta_target \o <<PathName.scripts>>),
                                          src.powershell,
                                          meta_target \o <<PathName.scripts, PathName.powershell>>).fs]
         ELSE [st EXCEPT !.fs = Mkdirs(@, meta_target \o <<PathName.scripts>>),
                         !.warnings = @ \cup {Warning("scripts/powershell not found", platform)}]
    ELSE [st EXCEPT !.fs = Mkdirs(@, meta_target \o <<PathName.scripts>>),
                    !.warnings = @ \cup {Warning("unknown platform", platform)}]

\* A command file: the stem of its name and its text.
CmdFile(name, content) == [stem |-> name, content |-> content]

CmdWriterNew ==
    CmdFile(WriterNew,
            Framed(<<FmLine.description, FmLine.scripts, CmdLine.sh_args>>,
                   Lit.Newline \o Lit.PlaceholderScript \o Lit.PlaceholderArguments))
CmdNovelWriterNew == CmdFile(Lit.NovelDash \o WriterNew, <<"x">> \o Lit.PlaceholderArgs)
CmdSetup ==
    CmdFile(NovelSetup, Lit.Newline \o Framed(<<FmLine.scripts, CmdLine.ps_arguments>>, <<>>))
CmdBad == CmdFile(Sample.bad, Framed(<<FmLine.scripts_scalar>>, <<>>))

\* convert_command_file for each of the command files, ai and platform.
Conversions ==
    [cmd_file \in {CmdWriterNew, CmdNovelWriterNew, CmdSetup, CmdBad},
     ai \in DOMAIN AI_ENV_CONFIG, platform \in Platforms \cup {PlatformAgentLinux} |->
        convert_command_file(cmd_file.content, cmd_file.stem, ai, platform)]

\* A conversion that raises is a warning, and the loop goes on.
WriteConvertedOrWarn(st, cmd_file, out, commands_target) ==
    IF st.raised THEN st
    ELSE IF out.raised
    THEN [st EXCEPT !.warnings = @ \cup {Warning("conversion failed", cmd_file.stem)}]
    ELSE [st EXCEPT !.fs = WriteFile(@, commands_target \o <<out.name>>, out.text),
                    !.warnings = @ \cup (IF out.warned
                                         THEN {Warning("no script command", cmd_file.stem)}
                                         ELSE {})]

\* The converted text is written under the name of the source file.
WriteConvertedUnderSourceName(st, cmd_file, out, commands_target) ==
    IF st.raised THEN st
    ELSE IF out.raised THEN [st EXCEPT !.raised = TRUE, !.error = "AttributeError"]
    ELSE [st EXCEPT !.fs = WriteFile(@, commands_target \o <<cmd_file.stem \o Lit.DotMd>>, out.text)]

\* convert_command_file(cmd_file, ai, platform, commands_target), out being
\* what the conversion gives: it raises, or the file is written, with a warning
\* when the command has no script for the platform.
WriteConverted(st, cmd_file, out, commands_target) ==
    IF st.raised THEN st
    ELSE IF out.raised THEN [st EXCEPT !.raised = TRUE, !.error = "AttributeError"]
    ELSE [st EXCEPT !.fs = WriteFile(@, commands_target \o <<out.name>>, out.text),
                    !.warnings = @ \cup (IF out.warned
                                         THEN {Warning("no script command", cmd_file.stem)}
                                         ELSE {})]

\* for cmd_file in src_commands.glob("*.md"): convert_command_file(...), the
\* files taken in the order glob yields them; a call that raises ends the loop.
RECURSIVE ConvertEach(_, _, _, _, _)
ConvertEach(st, files, ai, platform, commands_target) ==
    IF files = <<>> THEN st
    ELSE ConvertEach(WriteConverted(st, Head(files),
                                    Conversions[Head(files), ai, platform],
                                    commands_target),
                     Tail(files), ai, platform, commands_target)

\* 3. commands/
StageCommands(st, src, order, ai, platform, commands_target) ==
    IF st.raised THEN st
    ELSE IF src.commands.kind # "dir"
    THEN [st EXCEPT !.warnings = @ \cup {Warning("commands not found", <<>>)}]
    ELSE ConvertEach(st, order, ai, platform, commands_target)

\* The one extra is a .vscode directory, made for cursor alone.
StageExtrasForCursor(st, src, ai, dist_root) ==
    IF st.raised \/ ai # Ai.cursor THEN st
    ELSE [st EXCEPT !.fs = Mkdirs(@, dist_root \o <<PathName.vscode>>)]

\* 4. the extra files of gemini, qwen and copilot; shutil.copy2 raises when
\* the readme it is to copy is a directory.
StageExtras(st, src, ai, dist_root) ==
    IF st.raised THEN st
    ELSE IF \/ ai = Ai.gemini /\ src.gemini_readme.kind = "dir"
            \/ ai = Ai.qwen /\ src.qwen_readme.kind = "dir"
    THEN [st EXCEPT !.raised = TRUE, !.error = "IsADirectoryError"]
    ELSE IF ai = Ai.gemini /\ src.gemini_readme.kind # "none"
    THEN [st EXCEPT !.fs = WriteFile(@, dist_root \o <<PathName.gemini_md>>,
                                     src.gemini_readme.data)]
    ELSE IF ai = Ai.qwen /\ src.qwen_readme.kind # "none"
    THEN [st EXCEPT !.fs = WriteFile(@, dist_root \o <<PathName.qwen_md>>,
                                     src.qwen_readme.data)]
    ELSE IF /\ ai = Ai.copilot
            /\ \E s \in src.templates.entries : s.path = <<PathName.vscode_settings_json>>
    THEN [st EXCEPT !.fs =
             WriteFile(Mkdirs(@, dist_root \o <<PathName.vscode>>),
                       dist_root \o <<PathName.vscode, PathName.settings_json>>,
                       (CHOOSE s \in src.templates.entries :
                           s.path = <<PathName.vscode_settings_json>>).data)]
    ELSE st

\* return dist_root, unless a step has raised.
Return(st, dist_root) ==
    Outcome(st.fs, st.raised, st.error, st.warnings, IF st.raised THEN <<>> ELSE dist_root)

\* build_for_ai from dist_root on, for a registered ai.
Stage(fs, src, ai, platform, order) ==
    LET dist_root == <<DistRootName(ai, platform)>>
        meta_target == dist_root \o <<PathName.novelkit>>
        commands_target == dist_root \o AI_ENV_CONFIG[ai].folder
    IN Return(
         StageExtras(
           StageCommands(
             StageScripts(
               StageTemplates(
                 StageMemory(
                   StageTargets(fs, dist_root, meta_target, commands_target),
                   src, meta_target),
                 src, meta_target),
               src, platform, meta_target),
             src, order, ai, platform, commands_target),
           src, ai, dist_root),
         dist_root)

\* The destination is cleaned before the registry is looked at.
build_for_ai_clean_first(fs, src, ai, platform, order) ==
    IF ai \notin DOMAIN AI_ENV_CONFIG
    THEN Outcome(rmtree(fs, <<DistRootName(ai, platform)>>), TRUE, "ValueError", {}, <<>>)
    ELSE Stage(fs, src, ai, platform, order)

\* build_for_ai(repo_root, ai, platform), with the order in which glob yields
\* the command files.
build_for_ai(fs, src, ai, platform, order) ==
    IF ai \notin DOMAIN AI_ENV_CONFIG
    THEN Outcome(fs, TRUE, "ValueError", {}, <<>>)
    ELSE Stage(fs, src, ai, platform, order)

(***************************************************************************)
(* Inputs of the build specification.                                      *)
(***************************************************************************)
MaxBuilds == 2
MaxEdits == 1


\* commands/: missing, or a directory holding *.md files.
CommandTrees ==
    { [kind |-> "none", files |-> {}],
      [kind |-> "dir", files |-> {CmdWriterNew, CmdSetup}],
      [kind |-> "dir", files |-> {CmdWriterNew, CmdNovelWriterNew}],
      [kind |-> "dir", files |-> {CmdSetup, CmdBad}] }

\* The orders in which glob can yield the files of commands/.
GlobOrders(commands) ==
    {order \in [1..Cardinality(commands.files) -> commands.files] :
        \A i, j \in DOMAIN order : order[i] = order[j] => i = j}

\* Sources with everything a build looks for.
FullSource ==
    [config |-> FileAt(<<"1">>),
     templates |-> DirOf({File(<<Sample.a_txt>>, <<"a">>),
                          File(<<PathName.vscode_settings_json>>, <<"v">>),
                          Dir(<<Sample.sub>>),
                          File(<<Sample.sub, Sample.b_txt>>, <<"b">>)}),
     bash |-> DirOf({File(<<Sample.common_sh>>, <<"s">>)}),
     powershell |-> DirOf({File(<<Sample.common_ps1>>, <<"p">>)}),
     commands |-> [kind |-> "dir", files |-> {CmdWriterNew, CmdSetup}],
     gemini_readme |-> FileAt(<<"g">>),
     qwen_readme |-> FileAt(<<"g">>)]

\* The source trees one change away from src: config.json missing, as in
\* FullSource or with other content; templates/ missing, a file, or as in
\* FullSource; scripts/bash, scripts/powershell and the readme files missing
\* or as in FullSource; commands/ one of CommandTrees.
SourceEdits(src) ==
    {[src EXCEPT !.config = t] : t \in {NoTree, FullSource.config, FileAt(<<"2">>)}}
    \cup {[src EXCEPT !.templates = t] : t \in {NoTree, FileAt(<<"t">>), FullSource.templates}}
    \cup {[src EXCEPT !.bash = t] : t \in {NoTree, FullSource.bash}}
    \cup {[src EXCEPT !.powershell = t] : t \in {NoTree, FullSource.powershell}}
    \cup {[src EXCEPT !.commands = t] : t \in CommandTrees}
    \cup {[src EXCEPT !.gemini_readme = t, !.qwen_readme = t] :
             t \in {NoTree, FullSource.gemini_readme}}

BuildAis == {Ai.gemini, Ai.copilot, AiUnknown}

BuildPlatforms == {Linux, Win}

\* No call has just ended.  A call is remembered with its arguments, its
\* outcome, and what the destination dist/{ai}-{platform} held when it began.
NoCall ==
    [op |-> "none", ai |-> <<>>, platform |-> <<>>, raised |-> FALSE,
     error |-> "", warnings |-> {}, ret |-> <<>>, before |-> {}]

\* load_build_config(): SUPPORTED_AIS and SUPPORTED_PLATFORMS as the script
\* computes them when it is loaded, from build-config.json beside it.  The
\* file is absent, or holds a JSON object whose values are lists; set() keeps
\* one of each element of a list.
load_build_config(config_file) ==
    LET ListSet(list) == {list[i] : i \in DOMAIN list}
    IN IF config_file.kind = "none"
       THEN [ais |-> {Ai.cursor}, platforms |-> {Linux, Win}]
       ELSE [ais |-> IF "supported_ais" \in DOMAIN config_file.data
                     THEN ListSet(config_file.data.supported_ais)
                     ELSE ListSet(<<Ai.cursor>>),
             platforms |-> IF "supported_platforms" \in DOMAIN config_file.data
                           THEN ListSet(config_file.data.supported_platforms)
                           ELSE ListSet(<<Linux, Win>>)]

\* No run of main has just ended.
NoRun ==
    [op |-> "none", attempts |-> <<>>, output_dirs |-> <<>>, skipped |-> {},
     warnings |-> {}, exit |-> 0]

InitBuild ==
    /\ source = FullSource
    /\ dist = {}
    /\ call = NoCall
    /\ builds = 0
    /\ edits = 0
    /\ supported = load_build_config(NoTree)
    /\ run = NoRun
    /\ NamerIdle
    /\ ParserIdle
    /\ ConverterIdle
    /\ DownloaderIdle

\* The call build_for_ai(repo_root, ai, platform) ends with out.
Ends(ai, platform, out) ==
    /\ dist' = out.fs
    /\ call' = [op |-> "build_for_ai", ai |-> ai, platform |-> platform,
                raised |-> out.raised, error |-> out.error,
                warnings |-> out.warnings, ret |-> out.ret,
                before |-> Under(dist, <<DistRootName(ai, platform)>>)]

\* build_for_ai(repo_root, ai, platform)
BuildForAi ==
    /\ builds < MaxBuilds
    /\ \E ai \in BuildAis, platform \in BuildPlatforms, order \in GlobOrders(source.commands) :
          Ends(ai, platform, build_for_ai(dist, source, ai, platform, order))
    /\ builds' = builds + 1
    /\ UNCHANGED <<source, edits, supported, run, stem, named, renamed, doc, parsed, job, converted, cache, fetched>>

\* Between two builds the sources under repo_root change.
EditSources ==
    /\ edits < MaxEdits
    /\ \E src \in SourceEdits(source) :
          /\ src # source
          /\ source' = src
    /\ edits' = edits + 1
    /\ call' = NoCall
    /\ UNCHANGED <<dist, builds, supported, run, stem, named, renamed, doc, parsed, job, converted, cache, fetched>>

\* Between two builds something else writes into the linux destination of an
\* ai: a directory old/ with a file in it.
LeaveStray ==
    /\ edits < MaxEdits
    /\ \E ai \in BuildAis, platform \in {Linux} :
          LET dist_root == <<DistRootName(ai, platform)>>
          IN dist' = WriteFile(Mkdirs(dist, dist_root \o <<Sample.old>>),
                               dist_root \o <<Sample.old, Sample.stray_txt>>, <<"o">>)
    /\ edits' = edits + 1
    /\ call' = NoCall
    /\ UNCHANGED <<source, builds, supported, run, stem, named, renamed, doc, parsed, job, converted, cache, fetched>>

NextBuild == BuildForAi \/ EditSources \/ LeaveStray

SpecBuild == InitBuild /\ [][NextBuild]_vars

(***************************************************************************)
(* Claims about build_for_ai.                                              *)
(***************************************************************************)
\* C9: a build_for_ai call whose ai is not in the registry raises the
\* configuration error (ValueError) and returns no path, and the step leaves
\* everything under dist as it was: an existing destination {ai}-{platform}
\* keeps all its content and nothing is created.
C9_UnknownProfileTouchesNothing ==
    [][(call'.op = "build_for_ai" /\ call'.ai \notin DOMAIN AI_ENV_CONFIG)
          => /\ call'.raised
             /\ call'.error = "ValueError"
             /\ call'.ret = <<>>
             /\ dist' = dist]_vars

\* An unregistered ai was refused while its destination existed with a file
\* in it, and the destination still holds what it held.
C9_Witness ==
    /\ call.op = "build_for_ai"
    /\ call.ai \notin DOMAIN AI_ENV_CONFIG
    /\ call.raised
    /\ \E e \in call.before : e.kind = "file"
    /\ Under(dist, <<DistRootName(call.ai, call.platform)>>) = call.before

\* What a build of (ai, platform) stages from src besides the command files.
StagedBesidesCommands(src, ai, platform) ==
    LET root == <<DistRootName(ai, platform)>>
        meta == root \o <<PathName.novelkit>>
        folder == AI_ENV_CONFIG[ai].folder
        Placed(tree, at) ==
            IF tree.kind = "dir"
            THEN {Dir(at)} \cup {[path |-> at \o s.path, kind |-> s.kind, data |-> s.data] :
                                    s \in tree.entries}
            ELSE {}
    IN {Dir(root), Dir(meta), Dir(meta \o <<PathName.memory>>), Dir(meta \o <<PathName.scripts>>)}
       \cup {Dir(root \o SubSeq(folder, 1, n)) : n \in 1..Len(folder)}
       \cup (IF src.config.kind = "file"
             THEN {File(meta \o <<PathName.memory, PathName.config_json>>, src.config.data)}
             ELSE {})
       \cup Placed(src.templates, meta \o <<PathName.templates>>)
       \cup (IF platform = Linux THEN Placed(src.bash, meta \o <<PathName.scripts, PathName.bash>>)
             ELSE IF platform = Win
             THEN Placed(src.powershell, meta \o <<PathName.scripts, PathName.powershell>>)
             ELSE {})
       \cup (IF ai = Ai.gemini /\ src.gemini_readme.kind = "file"
             THEN {File(root \o <<PathName.gemini_md>>, src.gemini_readme.data)}
             ELSE {})
       \cup (IF ai = Ai.qwen /\ src.qwen_readme.kind = "file"
             THEN {File(root \o <<PathName.qwen_md>>, src.qwen_readme.data)}
             ELSE {})
       \cup (IF ai = Ai.copilot
             THEN {Dir(root \o <<PathName.vscode>>) : s \in
                      {s \in src.templates.entries : s.path = <<PathName.vscode_settings_json>>}}
                  \cup {File(root \o <<PathName.vscode, PathName.settings_json>>, s.data) : s \in
                          {s \in src.templates.entries : s.path = <<PathName.vscode_settings_json>>}}
             ELSE {})

\* The files lying directly in the command directory of the destination.
CommandFilesIn(tree, ai, platform) ==
    LET commands_target == <<DistRootName(ai, platform)>> \o AI_ENV_CONFIG[ai].folder
    IN {e \in tree : /\ e.kind = "file"
                     /\ Len(e.path) = Len(commands_target) + 1
                     /\ SubSeq(e.path, 1, Len(commands_target)) = commands_target}

\* C10: when a build_for_ai call has succeeded, the destination tree of its
\* (ai, platform) is exactly what that call staged from the sources it found:
\* the directories and copied files of the current sources, and for every
\* command file of the current sources its converted file; whatever the
\* destination held before the call, from an earlier call or from elsewhere,
\* is there only if the call staged it again.
C10_RebuildHoldsOnlyTheLastStaging ==
    (call.op = "build_for_ai" /\ ~call.raised) =>
        LET tree == Under(dist, <<DistRootName(call.ai, call.platform)>>)
            written == CommandFilesIn(tree, call.ai, call.platform)
            commands_target ==
                <<DistRootName(call.ai, call.platform)>> \o AI_ENV_CONFIG[call.ai].folder
            Converted(f) == Conversions[f, call.ai, call.platform]
        IN /\ tree \ written = StagedBesidesCommands(source, call.ai, call.platform)
           /\ \A e \in written : \E f \in source.commands.files :
                 e = File(commands_target \o <<Converted(f).name>>, Converted(f).text)
           /\ \A f \in source.commands.files : \E e \in written :
                 e.path = commands_target \o <<Converted(f).name>>

\* A destination staged by an earlier call was rebuilt after the sources had
\* changed: something it held is gone, and a file it held has new content.
C10_Witness ==
    /\ call.op = "build_for_ai"
    /\ ~call.raised
    /\ Dir(<<DistRootName(call.ai, call.platform), PathName.novelkit, PathName.memory>>) \in call.before
    /\ \E e \in call.before : e \notin dist
    /\ \E e \in call.before : \E d \in dist :
          e.kind = "file" /\ d.kind = "file" /\ d.path = e.path /\ d.data # e.data

(***************************************************************************)
(* build_all and main.                                                     *)
(***************************************************************************)
\* What build_all has done so far: the entries under dist, the cells it has
\* attempted in order, each with whether build_for_ai raised, output_dirs,
\* and the ais it has skipped with a warning.
Progress(fs, attempts, output_dirs, skipped) ==
    [fs |-> fs, attempts |-> attempts, output_dirs |-> output_dirs, skipped |-> skipped]

\* A failed cell is appended to output_dirs as well.
FailedButListed(acc, fs, ai, platform) ==
    Progress(fs,
             Append(acc.attempts, [ai |-> ai, platform |-> platform, raised |-> TRUE]),
             Append(acc.output_dirs, <<DistRootName(ai, platform)>>),
             acc.skipped)

\* except Exception: continue
Failed(acc, fs, ai, platform) ==
    Progress(fs,
             Append(acc.attempts, [ai |-> ai, platform |-> platform, raised |-> TRUE]),
             acc.output_dirs,
             acc.skipped)

\* out_dir = build_for_ai(...); output_dirs.append(out_dir)
Succeeded(acc, fs, out_dir, ai, platform) ==
    Progress(fs,
             Append(acc.attempts, [ai |-> ai, platform |-> platform, raised |-> FALSE]),
             Append(acc.output_dirs, out_dir),
             acc.skipped)

\* for platform in SUPPORTED_PLATFORMS, in the order the set yields them, and
\* the try statement of its body, out being what build_for_ai gives.
RECURSIVE EachPlatform(_, _, _, _, _)
TryCell(acc, out, src, ai, platforms, order) ==
    IF out.raised
    THEN EachPlatform(Failed(acc, out.fs, ai, Head(platforms)),
                      src, ai, Tail(platforms), order)
    ELSE EachPlatform(Succeeded(acc, out.fs, out.ret, ai, Head(platforms)),
                      src, ai, Tail(platforms), order)

EachPlatform(acc, src, ai, platforms, order) ==
    IF platforms = <<>> THEN acc
    ELSE TryCell(acc, build_for_ai(acc.fs, src, ai, Head(platforms), order),
                 src, ai, platforms, order)

\* for ai in SUPPORTED_AIS, in the order the set yields them; an ai that is
\* not in AI_ENV_CONFIG is skipped with a warning.
RECURSIVE EachAi(_, _, _, _, _)
\* An ai that is not in AI_ENV_CONFIG is attempted as well.
EachAiNoSkip(acc, src, ais, platforms, order) ==
    IF ais = <<>> THEN acc
    ELSE EachAi(EachPlatform(acc, src, Head(ais), platforms, order),
                src, Tail(ais), platforms, order)

EachAi(acc, src, ais, platforms, order) ==
    IF ais = <<>> THEN acc
    ELSE IF Head(ais) \notin DOMAIN AI_ENV_CONFIG
    THEN EachAi([acc EXCEPT !.skipped = @ \cup {Head(ais)}], src, Tail(ais), platforms, order)
    ELSE EachAi(EachPlatform(acc, src, Head(ais), platforms, order),
                src, Tail(ais), platforms, order)

\* build_all(repo_root), ais and platforms being SUPPORTED_AIS and
\* SUPPORTED_PLATFORMS in the order their iteration yields them.
build_all(fs, src, ais, platforms, order) ==
    EachAi(Progress(fs, <<>>, <<>>, {}), src, ais, platforms, order)

\* The orders in which iterating a set can yield its elements.
Orders(S) ==
    {order \in [1..Cardinality(S) -> S] : \A i, j \in DOMAIN order : order[i] = order[j] => i = j}

All == <<"a", "l", "l">>

\* How a run of main ends: the entries under dist, the cells attempted,
\* output_dirs, the ais skipped, the warnings of main itself and the exit code.
Exit(op, acc, warnings, code) ==
    [op |-> op, fs |-> acc.fs, attempts |-> acc.attempts, output_dirs |-> acc.output_dirs,
     skipped |-> acc.skipped, warnings |-> warnings, exit |-> code]

\* main with ai "all", after build_all has returned: the exit code is 1 when
\* output_dirs is empty.
MainAllExit(acc) ==
    Exit("all", acc, {}, IF acc.output_dirs = <<>> THEN 1 ELSE 0)

\* main with one ai and platform, the try statement, out being what
\* build_for_ai gives: the exit code is 1 when it raised.
MainOneBuilt(fs, out, ai, platform, warnings) ==
    IF out.raised
    THEN Exit("one", Failed(Progress(fs, <<>>, <<>>, {}), out.fs, ai, platform), warnings, 1)
    ELSE Exit("one", Succeeded(Progress(fs, <<>>, <<>>, {}), out.fs, out.ret, ai, platform),
              warnings, 0)

\* main with one ai and platform, the steps after the platform warning:
\* find_repo_root() exits with 1 when commands/ is not a directory.
MainOneExit(fs, src, ai, platform, order, warnings) ==
    IF src.commands.kind # "dir" THEN Exit("one", Progress(fs, <<>>, <<>>, {}), warnings, 1)
    ELSE IF ai \notin DOMAIN AI_ENV_CONFIG
    THEN Exit("one", Progress(fs, <<>>, <<>>, {}), warnings, 1)
    ELSE MainOneBuilt(fs, build_for_ai(fs, src, ai, platform, order), ai, platform, warnings)

\* main(argv) with argv = [ai, platform].
main(fs, src, sup, ai_arg, platform_arg, ais, platforms, order) ==
    IF Lower(ai_arg) = All
    THEN IF src.commands.kind # "dir"
         THEN Exit("all", Progress(fs, <<>>, <<>>, {}), {}, 1)
         ELSE MainAllExit(build_all(fs, src, ais, platforms, order))
    ELSE IF Lower(ai_arg) \notin sup.ais
    THEN Exit("one", Progress(fs, <<>>, <<>>, {}), {}, 1)
    ELSE MainOneExit(fs, src, Lower(ai_arg), Lower(platform_arg), order,
                     IF Lower(platform_arg) \notin sup.platforms
                     THEN {Warning("platform not supported", Lower(platform_arg))}
                     ELSE {})

(***************************************************************************)
(* Runs of main.                                                           *)
(***************************************************************************)
\* build-config.json: absent, or naming ais and platforms.
BuildConfigFiles ==
    {NoTree,
     FileAt([supported_ais |-> <<Ai.cursor, Ai.cursor_agent>>,
             supported_platforms |-> <<Win, PlatformMac, Linux>>]),
     FileAt([supported_ais |-> <<Ai.gemini, AiUnknown, Ai.copilot>>,
             supported_platforms |-> <<Linux>>]),
     FileAt([supported_ais |-> <<Ai.gemini, Ai.gemini>>,
             supported_platforms |-> <<PlatformMac, Win>>]),
     FileAt([supported_ais |-> <<AiUnknown>>])}

\* The sources of a run: everything a build looks for; GEMINI.md a directory;
\* two command files with one converted name; a command file whose scripts is
\* not a mapping; no commands/; no scripts/bash.
MainSources ==
    {FullSource,
     [FullSource EXCEPT !.gemini_readme = DirOf({})],
     [FullSource EXCEPT !.commands = [kind |-> "dir", files |-> {CmdWriterNew, CmdNovelWriterNew}]],
     [FullSource EXCEPT !.commands = [kind |-> "dir", files |-> {CmdSetup, CmdBad}]],
     [FullSource EXCEPT !.commands = [kind |-> "none", files |-> {}]],
     [FullSource EXCEPT !.bash = NoTree]}

\* The ai and platform arguments of a run.
MainAis == {All, <<"A", "L", "L">>, Ai.cursor, Ai.cursor_agent, <<"G", "e", "m", "i", "n", "i">>, Ai.copilot, AiUnknown}
MainPlatforms == {Linux, Win, PlatformMac}

InitMain ==
    /\ source \in MainSources
    /\ dist = {}
    /\ call = NoCall
    /\ builds = 0
    /\ edits = 0
    /\ supported \in {load_build_config(f) : f \in BuildConfigFiles}
    /\ run = NoRun
    /\ NamerIdle
    /\ ParserIdle
    /\ ConverterIdle
    /\ DownloaderIdle

\* The run of main ends with out.
Ended(out) ==
    /\ dist' = out.fs
    /\ run' = [op |-> out.op, attempts |-> out.attempts, output_dirs |-> out.output_dirs,
               skipped |-> out.skipped, warnings |-> out.warnings, exit |-> out.exit]

\* main(["all"])
MainAll ==
    /\ builds < MaxBuilds
    /\ \E ai_arg \in {a \in MainAis : Lower(a) = All}, ais \in Orders(supported.ais),
          platforms \in Orders(supported.platforms), order \in GlobOrders(source.commands) :
          Ended(main(dist, source, supported, ai_arg, Linux, ais, platforms, order))
    /\ builds' = builds + 1
    /\ UNCHANGED <<source, call, edits, supported, stem, named, renamed, doc, parsed, job, converted, cache, fetched>>

\* main([ai, platform])
MainOne ==
    /\ builds < MaxBuilds
    /\ \E ai_arg \in {a \in MainAis : Lower(a) # All}, platform_arg \in MainPlatforms,
          order \in GlobOrders(source.commands) :
          Ended(main(dist, source, supported, ai_arg, platform_arg, <<>>, <<>>, order))
    /\ builds' = builds + 1
    /\ UNCHANGED <<source, call, edits, supported, stem, named, renamed, doc, parsed, job, converted, cache, fetched>>

NextMain == MainAll \/ MainOne

SpecMain == InitMain /\ [][NextMain]_vars

(***************************************************************************)
(* Claims about build_all and main.                                        *)
(***************************************************************************)
\* The cells build_all has to attempt: every ai of SUPPORTED_AIS that is in
\* AI_ENV_CONFIG with every platform of SUPPORTED_PLATFORMS.
CellsToAttempt == (supported.ais \cap DOMAIN AI_ENV_CONFIG) \X supported.platforms

\* C11: in a run of main with ai "all" that gets to build_all, a cell whose
\* build_for_ai raises is left out of output_dirs and every cell after it is
\* still attempted; output_dirs holds, in the order of the attempts, exactly
\* the destinations dist/{ai}-{platform} of the cells that did not raise, each
\* of which exists; and the exit code is 1 exactly when output_dirs is empty.
C11_FailedCellsAreLeftOutAndTheRestGoOn ==
    (run.op = "all" /\ source.commands.kind = "dir") =>
        LET DidNotRaise(a) == ~a.raised
            succeeded == SelectSeq(run.attempts, DidNotRaise)
        IN /\ {<<run.attempts[i].ai, run.attempts[i].platform>> : i \in DOMAIN run.attempts}
                 = CellsToAttempt
           /\ Len(run.output_dirs) = Len(succeeded)
           /\ \A i \in DOMAIN succeeded :
                 /\ run.output_dirs[i] = <<DistRootName(succeeded[i].ai, succeeded[i].platform)>>
                 /\ Exists(dist, run.output_dirs[i])
           /\ (run.exit = 1) = (run.output_dirs = <<>>)
           /\ run.exit \in {0, 1}

\* A run with ai "all" in which a cell failed, a later cell succeeded, and the
\* run ended with exit code 0 and the later cell alone in output_dirs.
C11_Witness ==
    /\ run.op = "all"
    /\ \E i, j \in DOMAIN run.attempts :
          /\ i < j
          /\ run.attempts[i].raised
          /\ ~run.attempts[j].raised
          /\ run.output_dirs = <<<<DistRootName(run.attempts[j].ai, run.attempts[j].platform)>>>>
    /\ run.exit = 0

\* C12 as stated: a run of main with ai "all" that gets to build_all attempts
\* build_for_ai exactly once for every pair of a profile of AI_ENV_CONFIG and a
\* supported platform, and for no ai that is not in AI_ENV_CONFIG.
C12_EveryProfileOfTheRegistryIsAttempted ==
    (run.op = "all" /\ source.commands.kind = "dir") =>
        /\ \A ai \in DOMAIN AI_ENV_CONFIG, platform \in supported.platforms :
              Cardinality({i \in DOMAIN run.attempts :
                              /\ run.attempts[i].ai = ai
                              /\ run.attempts[i].platform = platform}) = 1
        /\ \A i \in DOMAIN run.attempts : run.attempts[i].ai \in DOMAIN AI_ENV_CONFIG

\* C12 as amended: a run of main with ai "all" that gets to build_all attempts
\* build_for_ai exactly once for every pair of an ai of SUPPORTED_AIS that is
\* in AI_ENV_CONFIG and a platform of SUPPORTED_PLATFORMS, and for no other
\* pair; an ai of SUPPORTED_AIS that is not in AI_ENV_CONFIG is skipped, and a
\* profile of AI_ENV_CONFIG that is not in SUPPORTED_AIS is not attempted.
C12_EverySupportedProfileIsAttemptedOnce ==
    (run.op = "all" /\ source.commands.kind = "dir") =>
        /\ \A cell \in CellsToAttempt :
              Cardinality({i \in DOMAIN run.attempts :
                              /\ run.attempts[i].ai = cell[1]
                              /\ run.attempts[i].platform = cell[2]}) = 1
        /\ Len(run.attempts) = Cardinality(CellsToAttempt)
        /\ \A i \in DOMAIN run.attempts :
              /\ run.attempts[i].ai \in supported.ais \cap DOMAIN AI_ENV_CONFIG
              /\ run.attempts[i].platform \in supported.platforms
        /\ run.skipped = supported.ais \ DOMAIN AI_ENV_CONFIG

\* A run with ai "all" attempted two profiles and skipped an ai that is not in
\* AI_ENV_CONFIG, while a profile of AI_ENV_CONFIG was left unattempted.
C12_Witness ==
    /\ run.op = "all"
    /\ run.skipped # {}
    /\ \E i, j \in DOMAIN run.attempts : run.attempts[i].ai # run.attempts[j].ai
    /\ \E ai \in DOMAIN AI_ENV_CONFIG : \A i \in DOMAIN run.attempts : run.attempts[i].ai # ai

(***************************************************************************)
(* Claims about what a build stages.                                       *)
(***************************************************************************)
\* The name of the file a command document is converted to for an ai: the
\* normalised stem with the suffix of the format of the ai.
OutputName(f, ai) == to_novel_command_name(f.stem, <<".">> \o AI_ENV_CONFIG[ai].format)

\* C13 as stated: after a build_for_ai call that succeeded, the command
\* directory of the destination holds one file per command document of the
\* sources, named by the normalised stem and the suffix of the format: no two
\* documents share a file, and there are as many files as documents.
C13_OneOutputFilePerDocument ==
    (call.op = "build_for_ai" /\ ~call.raised) =>
        LET written == CommandFilesIn(dist, call.ai, call.platform)
            commands_target ==
                <<DistRootName(call.ai, call.platform)>> \o AI_ENV_CONFIG[call.ai].folder
        IN /\ \A f \in source.commands.files :
                 \E e \in written : e.path = commands_target \o <<OutputName(f, call.ai)>>
           /\ \A f, g \in source.commands.files :
                 f # g => OutputName(f, call.ai) # OutputName(g, call.ai)
           /\ Cardinality(written) = Cardinality(source.commands.files)

\* C13 as amended: after a build_for_ai call that succeeded, the command
\* directory of the destination holds exactly one file per normalised name of
\* the command documents of the sources, named by the normalised stem and the
\* suffix of the format and holding the conversion of a document with that
\* normalised name; documents with the same normalised name share one file, so
\* there are as many files as distinct normalised names and never more files
\* than documents.
C13_OneOutputFilePerNormalisedName ==
    (call.op = "build_for_ai" /\ ~call.raised) =>
        LET written == CommandFilesIn(dist, call.ai, call.platform)
            commands_target ==
                <<DistRootName(call.ai, call.platform)>> \o AI_ENV_CONFIG[call.ai].folder
        IN /\ {e.path : e \in written}
                 = {commands_target \o <<OutputName(f, call.ai)>> : f \in source.commands.files}
           /\ \A e \in written : \E f \in source.commands.files :
                 /\ e.path = commands_target \o <<OutputName(f, call.ai)>>
                 /\ e.data = Conversions[f, call.ai, call.platform].text
           /\ Cardinality(written)
                 = Cardinality({OutputName(f, call.ai) : f \in source.commands.files})
           /\ Cardinality(written) <= Cardinality(source.commands.files)

\* A build succeeded on sources with two command documents of one normalised
\* name, and the command directory holds one file.
C13_Witness ==
    /\ call.op = "build_for_ai"
    /\ ~call.raised
    /\ Cardinality(source.commands.files) = 2
    /\ Cardinality(CommandFilesIn(dist, call.ai, call.platform)) = 1

\* The command documents of the sources whose conversion raises for the call.
Failing == {f \in source.commands.files : Conversions[f, call.ai, call.platform].raised}

\* The extra files of the ai of the call that lie in its destination.
ExtrasStaged ==
    {e \in Under(dist, <<DistRootName(call.ai, call.platform)>>) :
        e.path \in {<<DistRootName(call.ai, call.platform), PathName.gemini_md>>,
                    <<DistRootName(call.ai, call.platform), PathName.qwen_md>>,
                    <<DistRootName(call.ai, call.platform), PathName.vscode>>}}

\* A build_for_ai call for a registered ai that got as far as the command
\* documents.
ReachedCommands ==
    /\ call.op = "build_for_ai"
    /\ call.ai \in DOMAIN AI_ENV_CONFIG
    /\ source.templates.kind # "file"
    /\ source.commands.kind = "dir"

\* C14 as stated: when the conversion of a command document raises (its
\* scripts entry is an inline scalar), build_for_ai takes it as a warning:
\* the call succeeds, every other command document is converted and written,
\* and the extra files are staged.
C14_DocumentErrorIsAbsorbed ==
    (ReachedCommands /\ Failing # {}) =>
        /\ ~call.raised
        /\ \A f \in source.commands.files \ Failing :
              \E e \in CommandFilesIn(dist, call.ai, call.platform) :
                 e.data = Conversions[f, call.ai, call.platform].text
        /\ (call.ai = Ai.gemini /\ source.gemini_readme.kind = "file") => ExtrasStaged # {}

\* C14 as amended: the one fault of a command document that build_for_ai takes
\* as a warning is a missing script command for the platform: the document is
\* written with a stub and the call succeeds.  When the conversion of a
\* document raises (its scripts entry is an inline scalar), the error leaves
\* build_for_ai: the call raises and returns no path, only documents converted
\* before it are in the command directory, and the extra files are not staged.
C14_DocumentErrorLeavesTheBuild ==
    ReachedCommands =>
        IF Failing # {}
        THEN /\ call.raised
             /\ call.error = "AttributeError"
             /\ call.ret = <<>>
             /\ ExtrasStaged = {}
             /\ \A e \in CommandFilesIn(dist, call.ai, call.platform) :
                   \E f \in source.commands.files \ Failing :
                      e.data = Conversions[f, call.ai, call.platform].text
        ELSE /\ ~call.raised
             /\ \A f \in source.commands.files :
                   Conversions[f, call.ai, call.platform].warned
                      => Warning("no script command", f.stem) \in call.warnings

\* A build whose sources hold a command document with an inline scalar scripts
\* entry raised after another document had been written, and the extra file
\* of gemini, present in the sources, is not in the destination.
C14_Witness ==
    /\ ReachedCommands
    /\ Failing # {}
    /\ call.raised
    /\ CommandFilesIn(dist, call.ai, call.platform) # {}
    /\ call.ai = Ai.gemini
    /\ source.gemini_readme.kind = "file"
    /\ ExtrasStaged = {}

\* A build_for_ai call for a registered ai on sources none of which makes the
\* call raise.
BuildOfSoundSources ==
    /\ call.op = "build_for_ai"
    /\ call.ai \in DOMAIN AI_ENV_CONFIG
    /\ source.templates.kind # "file"
    /\ Failing = {}

\* The script subtree of the sources that the platform of the call takes.
PlatformScripts ==
    IF call.platform = Linux THEN source.bash
    ELSE IF call.platform = Win THEN source.powershell
    ELSE NoTree

\* The warnings of the call about a source that is absent.
AbsenceWarnings ==
    {w \in call.warnings : w.kind \in {"config.json not found", "templates not found",
                                       "scripts/bash not found", "scripts/powershell not found"}}

StagedScripts(cell, dir) ==
    Under(dist, <<DistRootName(cell.ai, cell.platform), PathName.novelkit, PathName.scripts, dir>>)

\* The cells of the last run of main whose build succeeded.
Built == {run.attempts[i] : i \in {j \in DOMAIN run.attempts : ~run.attempts[j].raised}}

\* C16 as stated: whatever platform id the run accepted, a cell that was built
\* holds one of the two script subtrees, the one its platform selects, when
\* the sources have it, and never the other: scripts/bash where the commands
\* are rendered with the key sh, scripts/powershell where they are rendered
\* with the key ps.
C16_OneScriptSubtreeForEveryPlatform ==
    \A cell \in Built :
        /\ StagedScripts(cell, PathName.bash) = {}
              \/ StagedScripts(cell, PathName.powershell) = {}
        /\ ScriptKey(cell.platform) = Lit.KeySh
              => /\ StagedScripts(cell, PathName.powershell) = {}
                 /\ source.bash.kind = "dir" => StagedScripts(cell, PathName.bash) # {}
        /\ ScriptKey(cell.platform) = Lit.KeyPs
              => /\ StagedScripts(cell, PathName.bash) = {}
                 /\ source.powershell.kind = "dir"
                       => StagedScripts(cell, PathName.powershell) # {}

\* C16 as amended: a cell built for platform linux holds scripts/bash when the
\* sources have it, never scripts/powershell, and its commands are rendered
\* with the key sh; a cell built for platform win holds scripts/powershell when
\* the sources have it, never scripts/bash, and its commands are rendered with
\* the key ps; a cell built for any other platform id the run accepts holds
\* neither subtree, only an empty scripts directory, while its commands are
\* rendered with the key ps.
C16_ScriptSubtreeOnlyForLinuxAndWin ==
    \A cell \in Built :
        /\ StagedScripts(cell, PathName.bash) # {}
              <=> (cell.platform = Linux /\ source.bash.kind = "dir")
        /\ StagedScripts(cell, PathName.powershell) # {}
              <=> (cell.platform = Win /\ source.powershell.kind = "dir")
        /\ Exists(dist, <<DistRootName(cell.ai, cell.platform), PathName.novelkit, PathName.scripts>>)
        /\ \A f \in source.commands.files :
              Conversions[f, cell.ai, cell.platform].script_key
                 = (IF cell.platform = Linux THEN Lit.KeySh ELSE Lit.KeyPs)
        /\ \A e \in CommandFilesIn(dist, cell.ai, cell.platform) :
              \E f \in source.commands.files :
                 e.data = Conversions[f, cell.ai, cell.platform].text

\* A cell was built for platform mac from sources that have both script
\* subtrees: its scripts directory is empty, and a command of it is rendered
\* with the powershell command of its document.
C16_Witness ==
    \E cell \in Built :
        /\ cell.platform = PlatformMac
        /\ source.bash.kind = "dir"
        /\ source.powershell.kind = "dir"
        /\ Under(dist, <<DistRootName(cell.ai, cell.platform), PathName.novelkit, PathName.scripts>>)
              = {Dir(<<DistRootName(cell.ai, cell.platform), PathName.novelkit, PathName.scripts>>)}
        /\ CmdSetup \in source.commands.files
        /\ ~Conversions[CmdSetup, cell.ai, cell.platform].warned
        /\ \E e \in CommandFilesIn(dist, cell.ai, cell.platform) :
              e.data = Conversions[CmdSetup, cell.ai, cell.platform].text

\* The two subtrees of the meta-space that the module docstring reserves for
\* what the commands create at run time.
Reserved == {<<"w", "r", "i", "t", "e", "r", "s">>, <<"c", "h", "a", "p", "t", "e", "r", "s">>}

\* C17: after a build_for_ai call that succeeded, the destination holds the
\* meta-space .novelkit with, besides memory, templates and scripts, the empty
\* directories writers and chapters, and it holds the command directory of
\* the profile even when the sources have no command document.
C17_ReservedSubtreesAreCreated ==
    (call.op = "build_for_ai" /\ ~call.raised) =>
        LET dist_root == <<DistRootName(call.ai, call.platform)>>
            meta_target == dist_root \o <<PathName.novelkit>>
        IN /\ Dir(meta_target) \in dist
           /\ Dir(dist_root \o AI_ENV_CONFIG[call.ai].folder) \in dist
           /\ \A name \in Reserved :
                 Under(dist, meta_target \o <<name>>) = {Dir(meta_target \o <<name>>)}

\* What the destination of a cell holds, every path taken from the
\* destination root.
Relative(cell) ==
    {[path |-> Tail(e.path), kind |-> e.kind, data |-> e.data] :
        e \in Under(dist, <<DistRootName(cell.ai, cell.platform)>>)}

\* The cells of the last run of main.
Attempted == {run.attempts[i] : i \in DOMAIN run.attempts}

\* C18: when one run of main has attempted cursor and cursor-agent for the
\* same platform, on the same sources, both cells raised or both succeeded,
\* and the two destinations hold the same entries below their roots: the same
\* command directory with the same file names and contents, and the same
\* meta-space; the names of the roots differ.
C18_CursorAndCursorAgentBuildTheSame ==
    \A c, a \in Attempted :
        (c.ai = Ai.cursor /\ a.ai = Ai.cursor_agent /\ c.platform = a.platform) =>
            /\ c.raised = a.raised
            /\ Relative(c) = Relative(a)
            /\ AI_ENV_CONFIG[c.ai].folder = AI_ENV_CONFIG[a.ai].folder
            /\ ~c.raised => Dir(AI_ENV_CONFIG[c.ai].folder) \in Relative(a)
            /\ DistRootName(c.ai, c.platform) # DistRootName(a.ai, a.platform)

\* One run built cursor and cursor-agent for one platform, and the command
\* directory and the meta-space of cursor-agent hold files.
C18_Witness ==
    \E c, a \in Built :
        /\ c.ai = Ai.cursor
        /\ a.ai = Ai.cursor_agent
        /\ c.platform = a.platform
        /\ CommandFilesIn(dist, a.ai, a.platform) # {}
        /\ \E e \in Relative(a) : e.kind = "file" /\ Head(e.path) = PathName.novelkit

(***************************************************************************)
(* FrontMatterParser: the loop over the lines.                             *)
(***************************************************************************)
\* The lines the loop of parse_frontmatter goes over for the document, when
\* the document has its two delimiters.
LoopLines ==
    IF doc.framed
    THEN Split(Strip(SplitMax(doc.raw, Lit.Delim, 2)[2]), Lit.Newline)
    ELSE <<>>

\* The mode and the two mappings before the i-th line is read, and after.
Before(i) == ParseLines(ParseStart, SubSeq(LoopLines, 1, i - 1))
After(i) == ParseLines(ParseStart, SubSeq(LoopLines, 1, i))

\* The line is empty or whitespace only.
IsBlankLine(l) == Trimmed(l, Whitespace) = <<>>

\* C19 as stated: while the loop is in nested mode, a line that is blank, has
\* no ":" or starts with a space or a tab leaves it in nested mode, and the
\* first non-blank line that has a ":" and starts with neither ends nested
\* mode and is stored as a top-level entry when it is read; out of nested mode
\* no line but a `scripts:` line adds to the scripts mapping; a blank line or a
\* line without ":" changes neither the mode nor the mappings.
C19_FirstUnindentedKeyLineEndsNestedMode ==
    parsed.done =>
        \A i \in DOMAIN LoopLines :
            LET l == LoopLines[i]
            IN /\ (Before(i).in_scripts /\ ~IsBlankLine(l) /\ IsKeyValueLine(l) /\ ~IsIndentedLine(l))
                     => /\ ~After(i).in_scripts
                        /\ Trimmed(BeforeColon(l), Whitespace) \in DOMAIN After(i).frontmatter
                        /\ After(i).scripts = Before(i).scripts
               /\ (Before(i).in_scripts /\ (IsBlankLine(l) \/ ~IsKeyValueLine(l) \/ IsIndentedLine(l)))
                     => After(i).in_scripts
               /\ (~Before(i).in_scripts /\ ~IsScriptsLine(l))
                     => /\ After(i).scripts = Before(i).scripts
                        /\ ~After(i).in_scripts
               /\ (IsBlankLine(l) \/ ~IsKeyValueLine(l)) => After(i) = Before(i)

\* C19 as amended: as C19, but for a `scripts:` line: while the loop is in
\* nested mode, the first non-blank line other than a `scripts:` line that has
\* a ":" and starts with neither a space nor a tab ends nested mode and is
\* stored as a top-level entry when it is read; a `scripts:` line read in
\* nested mode keeps nested mode and stores nothing.
C19_FirstUnindentedKeyLineButScriptsEndsNestedMode ==
    parsed.done =>
        \A i \in DOMAIN LoopLines :
            LET l == LoopLines[i]
            IN /\ (Before(i).in_scripts /\ ~IsBlankLine(l) /\ IsKeyValueLine(l)
                     /\ ~IsIndentedLine(l) /\ ~IsScriptsLine(l))
                     => /\ ~After(i).in_scripts
                        /\ Trimmed(BeforeColon(l), Whitespace) \in DOMAIN After(i).frontmatter
                        /\ After(i).scripts = Before(i).scripts
               /\ (Before(i).in_scripts
                     /\ (IsBlankLine(l) \/ ~IsKeyValueLine(l) \/ IsIndentedLine(l) \/ IsScriptsLine(l)))
                     => After(i).in_scripts
               /\ IsScriptsLine(l)
                     => /\ After(i).in_scripts
                        /\ After(i).scripts = Before(i).scripts
                        /\ After(i).frontmatter = Before(i).frontmatter
               /\ (~Before(i).in_scripts /\ ~IsScriptsLine(l))
                     => /\ After(i).scripts = Before(i).scripts
                        /\ ~After(i).in_scripts
               /\ (IsBlankLine(l) \/ ~IsKeyValueLine(l)) => After(i) = Before(i)

\* A parsed document in which a tab-indented line was stored in the scripts
\* mapping, the next line, unindented and with a ":", ended nested mode and
\* was stored as a top-level entry, and the scripts mapping is in the result.
C19_Witness ==
    /\ parsed.done
    /\ \E i \in DOMAIN LoopLines :
          /\ i > 2
          /\ LoopLines[i - 1] = FmLine.quoted_ps
          /\ Before(i).in_scripts
          /\ DOMAIN Before(i).scripts # {}
          /\ ~After(i).in_scripts
          /\ DOMAIN After(i).frontmatter # DOMAIN Before(i).frontmatter
          /\ ScriptsOf(parsed.val.frontmatter) = After(i).scripts

\* The lines of the loop that are stored: not blank, with a ":", and not a
\* `scripts:` line.
StoredLines ==
    {i \in DOMAIN LoopLines :
        /\ ~IsBlankLine(LoopLines[i])
        /\ IsKeyValueLine(LoopLines[i])
        /\ ~IsScriptsLine(LoopLines[i])}

\* What the i-th line is stored as: the value under key in the scripts mapping
\* when the line is read in nested mode and is indented, in the top-level
\* mapping otherwise.
StoredAs(i, key, value) ==
    IF Before(i).in_scripts /\ IsIndentedLine(LoopLines[i])
    THEN key \in DOMAIN After(i).scripts /\ After(i).scripts[key] = value
    ELSE key \in DOMAIN After(i).frontmatter /\ After(i).frontmatter[key] = StrVal(value)

\* s without the characters of chars at its two ends, however many.
WithoutEnds(s, chars) == Trimmed(s, chars)

ContentLines == Split(job.content, Lit.Newline)

FirstScriptsLine ==
    LET at == {i \in 1..Len(ContentLines) :
                  RStripChars(ContentLines[i], Whitespace) = Lit.ScriptsColon}
    IN IF at = {} THEN 0 ELSE CHOOSE i \in at : \A j \in at : i <= j

\* The run of indented `key: value` lines directly after that line: it ends
\* before the first line that is not indented or holds no colon.
IndentedRun ==
    LET from == FirstScriptsLine + 1
        breaks == {j \in from..Len(ContentLines) :
                      ~(IsIndentedLine(ContentLines[j]) /\ IsKeyValueLine(ContentLines[j]))}
        stop == IF breaks = {} THEN Len(ContentLines) + 1
                ELSE CHOOSE j \in breaks : \A k \in breaks : j <= k
    IN IF FirstScriptsLine = 0 THEN {} ELSE from..(stop - 1)

\* scripts holds exactly the pairs of the lines of the run.
HoldsTheRun(scripts) ==
    /\ DOMAIN scripts = {Trimmed(BeforeColon(ContentLines[i]), Whitespace) : i \in IndentedRun}
    /\ \A i \in IndentedRun :
          \E j \in IndentedRun :
              /\ Trimmed(BeforeColon(ContentLines[j]), Whitespace)
                     = Trimmed(BeforeColon(ContentLines[i]), Whitespace)
              /\ scripts[Trimmed(BeforeColon(ContentLines[i]), Whitespace)]
                     = WithoutEnds(WithoutEnds(Trimmed(AfterColon(ContentLines[j]), Whitespace),
                                               {"\""}), {"'"})

\* C21: extract_scripts_from_content is consulted only when structured parsing
\* yielded no scripts entry, and then the scripts of the conversion are exactly
\* the key/value pairs of the run of indented `key: value` lines that directly
\* follows the first `scripts:` line of the raw content: the run stops at the
\* first line that is not an indented `key: value` line (a non-indented line,
\* also one that follows a blank line), and nothing after it is included.
C21_FallbackReturnsTheIndentedRun ==
    (converted.done /\ ~converted.val.skipped /\ ~converted.val.raised)
        => LET frontmatter == parse_frontmatter(job.content).frontmatter
           IN IF Lit.ScriptsKey \in DOMAIN frontmatter
              THEN converted.val.scripts = frontmatter[Lit.ScriptsKey].dict
              ELSE HoldsTheRun(converted.val.scripts)

(***************************************************************************)
(* build_all over platform ids of build-config.json that hold a dash.      *)
(***************************************************************************)
\* build-config.json naming cursor and cursor-agent, with the platforms linux
\* and win, and with a platform id that starts with `agent-`.
CellConfigFiles ==
    {FileAt([supported_ais |-> <<Ai.cursor, Ai.cursor_agent>>,
             supported_platforms |-> <<Linux, Win>>]),
     FileAt([supported_ais |-> <<Ai.cursor, Ai.cursor_agent>>,
             supported_platforms |-> <<Linux, PlatformAgentLinux>>])}

InitCells ==
    /\ source \in MainSources
    /\ dist = {}
    /\ call = NoCall
    /\ builds = 0
    /\ edits = 0
    /\ supported \in {load_build_config(f) : f \in CellConfigFiles}
    /\ run = NoRun
    /\ NamerIdle
    /\ ParserIdle
    /\ ConverterIdle
    /\ DownloaderIdle

SpecCells == InitCells /\ [][NextMain]_vars

\* The destination root of an attempted cell.
RootOf(cell) == <<DistRootName(cell.ai, cell.platform)>>

\* C22: in a run of build_all no two distinct (profile, platform) cells share
\* a destination root, and at the end of the run every directory of the result
\* list exists and holds exactly the tree its own cell staged there, whatever
\* the cells after it built.
C22_CellsKeepTheirOwnSubtree ==
    (run.op = "all" /\ source.commands.kind = "dir") =>
        /\ \A i, j \in DOMAIN run.attempts :
              i # j => RootOf(run.attempts[i]) # RootOf(run.attempts[j])
        /\ \A i \in DOMAIN run.attempts :
              ~run.attempts[i].raised =>
                  /\ Exists(dist, RootOf(run.attempts[i]))
                  /\ \E order \in GlobOrders(source.commands) :
                        Under(dist, RootOf(run.attempts[i]))
                            = build_for_ai({}, source, run.attempts[i].ai,
                                           run.attempts[i].platform, order).fs

(***************************************************************************)
(* novel_kit_cli: download_from_remote and its cache.                      *)
(***************************************************************************)
MaxCalls == 3
MaxChunks == 2

\* The literals of download_from_remote, and the names of release assets.
Cli ==
    [ NovelKitDash |-> <<"n", "o", "v", "e", "l", "-", "k", "i", "t", "-">>,
      DotZip |-> <<".", "z", "i", "p">>,
      cursor_linux_v1_zip |-> <<"n", "o", "v", "e", "l", "-", "k", "i", "t", "-", "c", "u", "r", "s", "o", "r", "-", "l", "i", "n", "u", "x", "-", "v", "1", ".", "z", "i", "p">>,
      cursor_linux_v2_zip |-> <<"n", "o", "v", "e", "l", "-", "k", "i", "t", "-", "c", "u", "r", "s", "o", "r", "-", "l", "i", "n", "u", "x", "-", "v", "2", ".", "z", "i", "p">>,
      cursor_linux_v1_tar_gz |-> <<"n", "o", "v", "e", "l", "-", "k", "i", "t", "-", "c", "u", "r", "s", "o", "r", "-", "l", "i", "n", "u", "x", "-", "v", "1", ".", "t", "a", "r", ".", "g", "z">>,
      gemini_linux_v1_zip |-> <<"n", "o", "v", "e", "l", "-", "k", "i", "t", "-", "g", "e", "m", "i", "n", "i", "-", "l", "i", "n", "u", "x", "-", "v", "1", ".", "z", "i", "p">> ]

\* A zip file as the chunks it is downloaded in: one per member, then the end
\* of central directory record.
ZipBytes(members) ==
    [i \in 1..(Len(members) + 1) |->
        IF i <= Len(members)
        THEN [kind |-> "member", path |-> members[i].path, data |-> members[i].data]
        ELSE [kind |-> "end", path |-> <<>>, data |-> ""]]

\* zipfile.ZipFile(zip_path, "r"): the members of the archive; BadZipFile when
\* the file does not end with the end of central directory record.
ZipFile(bytes) ==
    IF bytes # <<>> /\ bytes[Len(bytes)].kind = "end"
    THEN [bad |-> FALSE, members |-> SubSeq(bytes, 1, Len(bytes) - 1)]
    ELSE [bad |-> TRUE, members |-> <<>>]

\* zip_ref.extractall(extract_dir), stopped after n members: the files below
\* extract_dir.
Extracted(members, n) ==
    {[path |-> members[i].path, data |-> members[i].data] :
        i \in 1..(IF n < Len(members) THEN n ELSE Len(members))}

\* A single directory at the top of the extracted items is replaced by its
\* contents.
Lifted(items) ==
    IF Cardinality({m.path[1] : m \in items}) = 1 /\ \A m \in items : Len(m.path) > 1
    THEN {[path |-> Tail(m.path), data |-> m.data] : m \in items}
    ELSE items

\* What a call leaves and gives: the cache directory, the matched asset name,
\* the returned directory (<<>> for None), and whether it was a cache hit.
Returned(files, dirs, filename, ret, hit) ==
    [cache |-> [files |-> files, dirs |-> dirs], filename |-> filename, ret |-> ret, hit |-> hit]

\* download_from_remote(ai_env, platform), with the assets of the latest
\* release and with what the network and the disk do during the call.
download_from_remote(cached, release, net, ai_env, platform) ==
    LET asset_pattern == Cli.NovelKitDash \o ai_env \o <<"-">> \o platform
        Matching(asset) ==
            Contains(asset.name, asset_pattern) /\ EndsWith(asset.name, Cli.DotZip)
        matching_assets == SelectSeq(release, Matching)
        asset == matching_assets[1]
        filename == asset.name
        cached_dir == ai_env \o <<"-">> \o platform
        written == SubSeq(asset.bytes, 1,
                          IF net.chunks < Len(asset.bytes) THEN net.chunks ELSE Len(asset.bytes))
        zip_ref == ZipFile(asset.bytes)
        None(files, dirs, name) == Returned(files, dirs, name, <<>>, FALSE)
        Unlinked(files, name) == [x \in (DOMAIN files) \ {name} |-> files[x]]
    IN IF ~net.has_httpx THEN None(cached.files, cached.dirs, <<>>)
       ELSE IF net.api # "200" THEN None(cached.files, cached.dirs, <<>>)
       ELSE IF matching_assets = <<>> THEN None(cached.files, cached.dirs, <<>>)
       ELSE IF cached_dir \in DOMAIN cached.dirs /\ filename \in DOMAIN cached.files
       THEN Returned(cached.files, cached.dirs, filename, cached_dir, TRUE)
       ELSE IF net.stream = "404" THEN None(cached.files, cached.dirs, filename)
       \* except httpx.HTTPError: the chunks written so far stay in zip_path.
       ELSE IF net.stream = "HTTPError"
       THEN None(Put(cached.files, filename, written), cached.dirs, filename)
       \* except Exception: zip_path.unlink()
       ELSE IF net.stream = "OSError"
       THEN None(Unlinked(cached.files, filename), cached.dirs, filename)
       \* except zipfile.BadZipFile: extract_dir was removed and made anew.
       ELSE IF zip_ref.bad
       THEN None(Unlinked(cached.files, filename), Put(cached.dirs, cached_dir, {}), filename)
       ELSE IF net.extract < Len(zip_ref.members)
       THEN None(Unlinked(cached.files, filename),
                 Put(cached.dirs, cached_dir, Extracted(zip_ref.members, net.extract)),
                 filename)
       ELSE Returned(Put(cached.files, filename, asset.bytes),
                     Put(cached.dirs, cached_dir,
                         Lifted(Extracted(zip_ref.members, Len(zip_ref.members)))),
                     filename, cached_dir, FALSE)

\* The assets of the latest release at the time of a call: none that matches;
\* a first version; a second version under a new name, packed in one
\* directory; an asset that is no zip archive.
Releases ==
    { <<[name |-> Cli.cursor_linux_v1_tar_gz, bytes |-> <<>>]>>,
      <<[name |-> Cli.gemini_linux_v1_zip,
         bytes |-> ZipBytes(<<[path |-> <<"g.md">>, data |-> "g"]>>)],
        [name |-> Cli.cursor_linux_v1_zip,
         bytes |-> ZipBytes(<<[path |-> <<"a.md">>, data |-> "1"],
                              [path |-> <<"b.md">>, data |-> "1"]>>)]>>,
      <<[name |-> Cli.cursor_linux_v2_zip,
         bytes |-> ZipBytes(<<[path |-> <<"pkg", "a.md">>, data |-> "2"],
                              [path |-> <<"pkg", "b.md">>, data |-> "2"]>>)]>>,
      <<[name |-> Cli.cursor_linux_v2_zip,
         bytes |-> <<[kind |-> "member", path |-> <<"a.md">>, data |-> "2"]>>]>> }

\* What a call meets: no httpx; the answer of the releases API; the answer of
\* the download and the chunks written before it broke; the members
\* extracted before extraction broke.
Nets ==
    [has_httpx : {FALSE}, api : {"200"}, stream : {"200"}, chunks : {0}, extract : {0}]
    \cup [has_httpx : {TRUE}, api : {"404", "403", "500", "HTTPError"}, stream : {"200"},
          chunks : {0}, extract : {0}]
    \cup [has_httpx : {TRUE}, api : {"200"}, stream : {"404"}, chunks : {0}, extract : {0}]
    \cup [has_httpx : {TRUE}, api : {"200"}, stream : {"HTTPError", "OSError"},
          chunks : 0..MaxChunks, extract : {0}]
    \cup [has_httpx : {TRUE}, api : {"200"}, stream : {"200"}, chunks : {0},
          extract : 0..MaxChunks]

InitDownload ==
    /\ DownloaderIdle
    /\ NamerIdle
    /\ ParserIdle
    /\ ConverterIdle
    /\ BuilderIdle

\* download_from_remote(selected_ai, PLATFORM, github_token)
Download ==
    /\ fetched.calls < MaxCalls
    /\ \E release \in Releases, net \in Nets, ai_env \in {Ai.cursor, Ai.gemini} :
          LET out == download_from_remote(cache, release, net, ai_env, Linux)
          IN /\ cache' = out.cache
             /\ fetched' = [calls |-> fetched.calls + 1, filename |-> out.filename,
                            ret |-> out.ret, hit |-> out.hit]
    /\ UNCHANGED <<stem, named, renamed, doc, parsed, job, converted, buildVars>>

NextDownload == Download

SpecDownload == InitDownload /\ [][NextDownload]_vars

\* C23: over any sequence of calls of download_from_remote, failed ones
\* included, a call returns the cached directory {ai}-{platform} without
\* downloading only when the cache is complete: the file under the matched asset
\* name is a completely downloaded archive, and the directory is the full
\* extraction of that archive; a partly written archive, or a directory
\* extracted from another asset, is never returned as a cache hit.
C23_HitOnlyOnCompleteCache ==
    fetched.hit =>
        /\ fetched.ret \in DOMAIN cache.dirs
        /\ fetched.filename \in DOMAIN cache.files
        /\ \E release \in Releases :
              \E i \in DOMAIN release :
                  /\ release[i].name = fetched.filename
                  /\ cache.files[fetched.filename] = release[i].bytes
                  /\ ~ZipFile(release[i].bytes).bad
                  /\ cache.dirs[fetched.ret]
                         = Lifted(Extracted(ZipFile(release[i].bytes).members,
                                            Len(release[i].bytes)))

====
